---- MODULE Spec2Model ----
(***************************************************************************)
(* Model of the log ingestion pipeline of levonm80/socapp:                 *)
(*   backend/services/log_parser.py       ZscalerLogParser                 *)
(*   backend/services/anomaly_detector.py AnomalyDetector                  *)
(*   backend/services/risk_scorer.py      calculate_user_risk_scores       *)
(*   backend/routes/logs.py               upload_log, _process_log_file    *)
(*                                                                         *)
(* Conventions.  An Optional value is a sequence: None is <<>> and a       *)
(* present value v is <<v>>.  Timestamps are seconds.  Confidences are     *)
(* hundredths (0.95 is 95).                                                *)
(***************************************************************************)
EXTENDS Integers, Sequences, FiniteSets, TLC

None == <<>>
Some(v) == <<v>>

Min2(a, b) == IF a <= b THEN a ELSE b

(***************************************************************************)
(* services/anomaly_detector.py                                            *)
(***************************************************************************)

MALICIOUS_DOMAINS == {"phishing-login.co", "suspicious-domain.xyz", "malicious-example.ru"}

RISKY_CATEGORIES == {"Proxy Avoidance", "Malware", "Phishing", "File Sharing"}

\* A user agent is a sequence of tokens; `pattern in user_agent` is the
\* occurrence of the pattern token in it.
UNUSUAL_UA_PATTERNS == <<"curl/", "python-requests/">>

LARGE_DOWNLOAD_THRESHOLD == 50000000

BURST_WINDOW_MINUTES == 5

BURST_THRESHOLD == 10

\* timedelta(minutes=m) in seconds
timedelta_minutes(m) == m * 60

AnomalyResult(is_anomalous, anomaly_type, reason, confidence) ==
    [is_anomalous |-> is_anomalous, anomaly_type |-> anomaly_type,
     reason |-> reason, confidence |-> confidence]

NotAnomalous == AnomalyResult(FALSE, None, None, None)

\* `pattern in entry.user_agent`
ua_contains(user_agent, pattern) == \E i \in 1..Len(user_agent) : user_agent[i] = pattern

\* f"{resp_size / (1024 * 1024):.2f}" as hundredths of a MB, rounded
\* half to even as the float formatting does on an exactly represented
\* value; whole and fractional MB are scaled apart to stay within 32 bits
size_mb_x100(resp_size) ==
    LET mb == 1024 * 1024
        whole == resp_size \div mb
        frac == (resp_size % mb) * 100
        q == whole * 100 + frac \div mb
        r == frac % mb
        half == mb \div 2
    IN  IF r > half \/ (r = half /\ q % 2 = 1) THEN q + 1 ELSE q

\* the list comprehension of _detect_burst_blocked
RECURSIVE recent_blocked(_, _)
recent_blocked(entry, recent_entries) ==
    IF recent_entries = <<>> THEN <<>>
    ELSE LET e == Head(recent_entries)
             window_start == entry.timestamp - timedelta_minutes(BURST_WINDOW_MINUTES)
             rest == recent_blocked(entry, Tail(recent_entries))
         IN  IF /\ e.timestamp >= window_start
                /\ e.action = "Blocked"
                /\ (e.client_ip = entry.client_ip \/ e.department = entry.department)
             THEN <<e>> \o rest
             ELSE rest

\* faulty variant: the threshold comparison is strict
detect_burst_blocked_strict(entry, recent_entries) ==
    IF entry.action # "Blocked" THEN NotAnomalous
    ELSE LET total_blocked == Len(recent_blocked(entry, recent_entries)) + 1
         IN  IF total_blocked > BURST_THRESHOLD
             THEN AnomalyResult(TRUE, Some("burst_blocked"),
                      Some(<<"burst_blocked", entry.client_ip, total_blocked>>), Some(80))
             ELSE NotAnomalous

detect_burst_blocked(entry, recent_entries) ==
    IF entry.action # "Blocked" THEN NotAnomalous
    ELSE LET total_blocked == Len(recent_blocked(entry, recent_entries)) + 1
         IN  IF total_blocked >= BURST_THRESHOLD
             THEN AnomalyResult(TRUE, Some("burst_blocked"),
                      Some(<<"burst_blocked", entry.client_ip, total_blocked>>), Some(80))
             ELSE NotAnomalous

\* next(p for p in UNUSUAL_UA_PATTERNS if p in entry.user_agent)
first_ua_pattern(user_agent) ==
    LET i == CHOOSE k \in 1..Len(UNUSUAL_UA_PATTERNS) :
                 /\ ua_contains(user_agent, UNUSUAL_UA_PATTERNS[k])
                 /\ \A m \in 1..(k - 1) : ~ua_contains(user_agent, UNUSUAL_UA_PATTERNS[m])
    IN  UNUSUAL_UA_PATTERNS[i]

\* the list `anomalies` of detect_anomalies before it is sorted
candidates(entry, recent_entries) ==
    LET burst_result == detect_burst_blocked(entry, recent_entries)
    IN  (IF entry.domain \in MALICIOUS_DOMAINS
         THEN <<AnomalyResult(TRUE, Some("malicious_domain"),
                    Some(<<"malicious_domain", entry.domain, 0>>), Some(95))>>
         ELSE <<>>)
        \o
        (IF entry.url_cat \in RISKY_CATEGORIES
         THEN <<AnomalyResult(TRUE, Some("risky_category"),
                    Some(<<"risky_category", entry.url_cat, 0>>), Some(70))>>
         ELSE <<>>)
        \o
        (IF \E k \in 1..Len(UNUSUAL_UA_PATTERNS) :
                ua_contains(entry.user_agent, UNUSUAL_UA_PATTERNS[k])
         THEN <<AnomalyResult(TRUE, Some("unusual_ua"),
                    Some(<<"unusual_ua", first_ua_pattern(entry.user_agent), 0>>), Some(60))>>
         ELSE <<>>)
        \o
        (IF entry.resp_size > LARGE_DOWNLOAD_THRESHOLD
         THEN <<AnomalyResult(TRUE, Some("large_download"),
                    Some(<<"large_download", "MB", size_mb_x100(entry.resp_size)>>), Some(65))>>
         ELSE <<>>)
        \o
        (IF burst_result.is_anomalous THEN <<burst_result>> ELSE <<>>)

\* insertion of x into a list sorted by descending confidence, after the
\* elements of equal confidence (list.sort is stable, also with reverse=True)
RECURSIVE insert_desc(_, _)
insert_desc(x, sorted) ==
    IF sorted = <<>> THEN <<x>>
    ELSE IF Head(sorted).confidence[1] >= x.confidence[1]
         THEN <<Head(sorted)>> \o insert_desc(x, Tail(sorted))
         ELSE <<x>> \o sorted

RECURSIVE sort_fold(_, _)
sort_fold(todo, sorted) ==
    IF todo = <<>> THEN sorted
    ELSE sort_fold(Tail(todo), insert_desc(Head(todo), sorted))

\* faulty variant: the sort is ascending (reverse=True forgotten)
RECURSIVE insert_asc(_, _)
insert_asc(x, sorted) ==
    IF sorted = <<>> THEN <<x>>
    ELSE IF Head(sorted).confidence[1] <= x.confidence[1]
         THEN <<Head(sorted)>> \o insert_asc(x, Tail(sorted))
         ELSE <<x>> \o sorted

RECURSIVE sort_fold_asc(_, _)
sort_fold_asc(todo, sorted) ==
    IF todo = <<>> THEN sorted
    ELSE sort_fold_asc(Tail(todo), insert_asc(Head(todo), sorted))

sort_by_confidence_asc(anomalies) == sort_fold_asc(anomalies, <<>>)

\* anomalies.sort(key=lambda x: x.confidence, reverse=True)
sort_by_confidence_desc(anomalies) == sort_fold(anomalies, <<>>)

\* faulty variant: the first candidate is returned, the list is not sorted
detect_anomalies_unsorted(entry, recent_entries) ==
    LET anomalies == candidates(entry, recent_entries)
    IN  IF anomalies = <<>> THEN NotAnomalous
        ELSE anomalies[1]

detect_anomalies(entry, recent_entries) ==
    LET anomalies == candidates(entry, recent_entries)
    IN  IF anomalies = <<>> THEN NotAnomalous
        ELSE sort_by_confidence_desc(anomalies)[1]

(***************************************************************************)
(* services/log_parser.py                                                  *)
(*                                                                         *)
(* A raw line is a record: `blank` (the stripped line is empty),           *)
(* `csv_error` (csv.reader raises csv.Error on it, e.g. a field longer     *)
(* than csv.field_size_limit()), `nfields` (number of fields csv.reader    *)
(* yields), `ts` (Some(seconds) when field 0 matches                       *)
(* "%a %b %d %H:%M:%S %Y", None otherwise) and the fields the detector and *)
(* the risk scorer read.  A URL is a sequence of tokens                    *)
(* ("http://", host, ":", port, "/", path).                                *)
(***************************************************************************)

EXPECTED_FIELD_COUNT == 34

\* faulty variant: only 'http://' is recognised
has_scheme_http_only(url) == url # <<>> /\ url[1] = "http://"

\* url.startswith(('http://', 'https://'))
has_scheme(url) == url # <<>> /\ url[1] \in {"http://", "https://"}

\* tokens of s before the first occurrence of sep (s.split(sep)[0])
RECURSIVE split_first(_, _)
split_first(s, sep) ==
    IF s = <<>> \/ Head(s) = sep THEN <<>>
    ELSE <<Head(s)>> \o split_first(Tail(s), sep)

\* tokens of s before the first occurrence of a token of seps
RECURSIVE split_first_any(_, _)
split_first_any(s, seps) ==
    IF s = <<>> \/ Head(s) \in seps THEN <<>>
    ELSE <<Head(s)>> \o split_first_any(Tail(s), seps)

\* `tok in s`
contains(s, tok) == \E i \in 1..Len(s) : s[i] = tok

\* _extract_domain.  urlparse(url).netloc is what follows the scheme up to the
\* first "/", "?" or "#"; with an empty netloc parsed.path.split('/')[0] is
\* empty as well.  urlparse raises ValueError when one of "[" and "]" occurs
\* in the netloc without the other: the except branch then removes the
\* scheme prefixes and splits by hand.
extract_domain(url) ==
    IF url = <<>> THEN <<>>
    ELSE LET with_scheme == IF has_scheme(url) THEN url ELSE <<"http://">> \o url
             netloc == split_first_any(Tail(with_scheme), {"/", "?", "#"})
             raises == contains(netloc, "[") # contains(netloc, "]")
             replaced == SelectSeq(with_scheme, LAMBDA t : t \notin {"http://", "https://"})
         IN  IF raises
             THEN split_first(split_first(replaced, "/"), ":")
             ELSE split_first(netloc, ":")

\* the host as the string stored in ParsedLogEntry.domain
domain_str(d) == IF d = <<>> THEN "" ELSE d[1]

\* outcome of parse_line: "entry" with the ParsedLogEntry, "LogParseError",
\* or "csv.Error" (not among the exceptions the except clause converts)
parse_line(line) ==
    IF line.csv_error THEN [outcome |-> "csv.Error", entry |-> None]
    ELSE IF line.nfields # EXPECTED_FIELD_COUNT THEN [outcome |-> "LogParseError", entry |-> None]
    ELSE IF line.ts = None THEN [outcome |-> "LogParseError", entry |-> None]
    ELSE [outcome |-> "entry",
          entry |-> Some([timestamp |-> line.ts[1],
                          domain |-> domain_str(extract_domain(line.url)),
                          action |-> line.action,
                          url_cat |-> line.url_cat,
                          user_agent |-> line.user_agent,
                          resp_size |-> line.resp_size,
                          department |-> line.department,
                          client_ip |-> line.client_ip])]

(***************************************************************************)
(* services/risk_scorer.py                                                 *)
(***************************************************************************)

\* faulty variant: entries are grouped by client address alone
user_id_of_ip_only(entry) == entry.client_ip

\* entry.department or str(entry.client_ip)
user_id_of(entry) == IF entry.department # "" THEN entry.department ELSE entry.client_ip

NewStats == [anomaly_count |-> 0, blocked_count |-> 0, malicious_domain_count |-> 0,
             total_requests |-> 0, by_anomaly_type |-> <<>>]

\* stats['by_anomaly_type'][t] = stats['by_anomaly_type'].get(t, 0) + 1
bump(d, t) ==
    [k \in DOMAIN d \cup {t} |-> IF k = t THEN (IF t \in DOMAIN d THEN d[t] ELSE 0) + 1 ELSE d[k]]

\* the body of the loop over entries
tally(stats, entry) ==
    LET s1 == [stats EXCEPT !.total_requests = @ + 1]
        s2 == IF entry.is_anomalous
              THEN [s1 EXCEPT !.anomaly_count = @ + 1,
                              !.by_anomaly_type =
                                  bump(@, IF entry.anomaly_type # None
                                          THEN entry.anomaly_type[1] ELSE "unknown")]
              ELSE s1
        s3 == IF entry.action = "Blocked" THEN [s2 EXCEPT !.blocked_count = @ + 1] ELSE s2
    IN  IF entry.anomaly_type = Some("malicious_domain")
        THEN [s3 EXCEPT !.malicious_domain_count = @ + 1] ELSE s3

\* faulty variant: the stats of a user are created at each of the user's
\* entries (`if user_id not in user_stats` left out)
RECURSIVE user_stats_created_anew(_, _)
user_stats_created_anew(entries, acc) ==
    IF entries = <<>> THEN acc
    ELSE LET entry == Head(entries)
             user_id == user_id_of(entry)
         IN  user_stats_created_anew(Tail(entries),
                        [u \in DOMAIN acc \cup {user_id} |->
                            IF u = user_id THEN tally(NewStats, entry) ELSE acc[u]])

RECURSIVE user_stats(_, _)
user_stats(entries, acc) ==
    IF entries = <<>> THEN acc
    ELSE LET entry == Head(entries)
             user_id == user_id_of(entry)
             stats == IF user_id \in DOMAIN acc THEN acc[user_id] ELSE NewStats
         IN  user_stats(Tail(entries),
                        [u \in DOMAIN acc \cup {user_id} |->
                            IF u = user_id THEN tally(stats, entry) ELSE acc[u]])

\* faulty variant: the sum of the three parts is not capped
risk_score_of_uncapped(stats) ==
    LET anomaly_score == Min2(stats.anomaly_count * 10, 50)
        blocked_score == Min2(stats.blocked_count * 5, 30)
        malicious_score == Min2(stats.malicious_domain_count * 20, 40)
    IN  anomaly_score + blocked_score + malicious_score

risk_score_of(stats) ==
    LET anomaly_score == Min2(stats.anomaly_count * 10, 50)
        blocked_score == Min2(stats.blocked_count * 5, 30)
        malicious_score == Min2(stats.malicious_domain_count * 20, 40)
    IN  Min2(anomaly_score + blocked_score + malicious_score, 100)

calculate_user_risk_scores(log_file_id, entries) ==
    LET stats == user_stats(entries, <<>>)
    IN  [user_id \in DOMAIN stats |->
            [user_identifier |-> user_id,
             risk_score |-> risk_score_of(stats[user_id]),
             anomaly_count |-> stats[user_id].anomaly_count,
             blocked_count |-> stats[user_id].blocked_count,
             malicious_domain_count |-> stats[user_id].malicious_domain_count,
             metadata |-> stats[user_id].by_anomaly_type]]

(***************************************************************************)
(* Bounds of the model and the inputs drawn from them                      *)
(***************************************************************************)

\* The batch size of _process_log_file (1000 in the program), scaled down so
\* that flushes happen within the inputs below.
BATCH_SIZE == 2

\* total number of lines of an input (over all archive members)
MaxLines == 3

\* number of members of an archive
MaxMembers == 2

\* `if len(recent_entries_by_ip[parsed.client_ip]) > 20`
RECENT_ENTRIES_CAP == 20

JobIds == {"j1"}

\* strings the code inspects by suffix or prefix are sequences of characters
LowerChar(c) ==
    CASE c = "Z" -> "z" [] c = "I" -> "i" [] c = "P" -> "p" [] c = "C" -> "c"
      [] c = "S" -> "s" [] c = "V" -> "v" [] c = "T" -> "t" [] c = "X" -> "x"
      [] c = "L" -> "l" [] c = "O" -> "o" [] c = "G" -> "g" [] c = "A" -> "a"
      [] OTHER -> c

\* faulty variant: the name is compared as it is written
lower_case_kept(s) == s

lower(s) == [i \in 1..Len(s) |-> LowerChar(s[i])]

endswith(s, suffix) ==
    /\ Len(s) >= Len(suffix)
    /\ SubSeq(s, Len(s) - Len(suffix) + 1, Len(s)) = suffix

LogExtensions == {<<".", "c", "s", "v">>, <<".", "t", "x", "t">>, <<".", "l", "o", "g">>}

ZipFileName == <<"A", ".", "Z", "I", "P">>
LogFileName == <<"a", ".", "l", "o", "g">>
PKBytes == <<"P", "K">>

MkLine(blank, csv_error, nfields, ts, url, action, url_cat, user_agent, resp_size, department, client_ip) ==
    [blank |-> blank, csv_error |-> csv_error, nfields |-> nfields, ts |-> ts, url |-> url,
     action |-> action, url_cat |-> url_cat, user_agent |-> user_agent,
     resp_size |-> resp_size, department |-> department, client_ip |-> client_ip]

BlankLine == MkLine(TRUE, FALSE, 0, None, <<>>, "", "", <<>>, 0, "", "")
\* a line of 33 fields
ShortLine == MkLine(FALSE, FALSE, 33, Some(100), <<"example.com", "/">>, "Allowed", "News", <<"Mozilla/5.0">>, 0, "", "10.0.0.1")
\* a line csv.reader rejects with csv.Error
CsvErrorLine == MkLine(FALSE, TRUE, 0, None, <<>>, "", "", <<>>, 0, "", "")
\* two well-formed lines
LineA == MkLine(FALSE, FALSE, 34, Some(100), <<"example.com", "/", "x">>, "Blocked", "News", <<"Mozilla/5.0">>, 2000, "", "10.0.0.1")
LineB == MkLine(FALSE, FALSE, 34, Some(50), <<"https://", "phishing-login.co", ":", "8443", "/">>, "Allowed", "Phishing", <<"curl/", "7.68.0">>, 10, "Engineering", "10.0.0.2")

FileLines == {BlankLine, ShortLine, CsvErrorLine, LineA, LineB}
MemberLines == {ShortLine, CsvErrorLine, LineA}

SeqsUpTo(S, n) == UNION {[1..k -> S] : k \in 0..n}

MkMember(name, readable, lines) == [name |-> name, readable |-> readable, lines |-> lines]

\* members holding at most l lines: readable log members, a log member whose
\* read fails, a directory entry, a member with another extension
MembersUpTo(l) ==
    {MkMember(<<"m", ".", "C", "S", "V">>, TRUE, ls) : ls \in SeqsUpTo(MemberLines, l)}
    \cup {MkMember(<<"m", ".", "c", "s", "v">>, FALSE, <<>>),
          MkMember(<<"d", "/">>, TRUE, <<>>),
          MkMember(<<"x", ".", "b", "i", "n">>, TRUE, <<>>)}

RECURSIVE ArchivesOf(_, _)
ArchivesOf(m, l) ==
    IF m = 0 THEN {<<>>}
    ELSE {<<>>} \cup
         UNION {{<<mem>> \o rest : rest \in ArchivesOf(m - 1, l - Len(mem.lines))} :
                mem \in MembersUpTo(l)}

MkInput(filename, file_start, zip_ok, members, lines) ==
    [filename |-> filename, file_start |-> file_start, zip_ok |-> zip_ok,
     members |-> members, lines |-> lines]

\* an uploaded file: its name, its first bytes, whether zipfile.ZipFile opens
\* it, its members (archive) and its lines (plain file)
Inputs ==
    {MkInput(LogFileName, <<"\"", "M">>, FALSE, <<>>, ls) : ls \in SeqsUpTo(FileLines, MaxLines)}
    \cup {MkInput(LogFileName, PKBytes, TRUE, ms, <<>>) : ms \in ArchivesOf(MaxMembers, MaxLines)}
    \cup {MkInput(ZipFileName, PKBytes, TRUE, <<>>, <<>>),
          MkInput(ZipFileName, PKBytes, FALSE, <<>>, <<LineA>>),
          MkInput(ZipFileName, <<"\"", "M">>, FALSE, <<>>, <<LineA>>),
          MkInput(LogFileName, PKBytes, FALSE, <<>>, <<LineA>>)}

(***************************************************************************)
(* State                                                                   *)
(***************************************************************************)

VARIABLES
    input,             \* job id -> the uploaded file
    log_files,         \* table log_files: job id -> row (durable)
    log_entries,       \* table log_entries, in insertion order (durable)
    user_risk_scores,  \* table user_risk_scores (durable)
    worker,            \* job id -> the locals of its worker thread
    faults,            \* job id -> the operations of the job that raised
    response,          \* job id -> the response of upload_log, once returned
    parsed_lines,      \* job id -> the entries parse_line has returned so far
    risk_calls,        \* job id -> the arguments of the calls of calculate_user_risk_scores
    d_recent,          \* detector alone: the history handed to it
    d_entry,           \* detector alone: the entry handed to it
    d_result,          \* detector alone: its result
    r_entries,         \* risk scorer alone: the entries handed to it
    r_result,          \* risk scorer alone: its result
    p_line,            \* parser alone: the line handed to parse_line
    p_result,          \* parser alone: the outcome of parse_line
    u_parts,           \* parser alone: the parts of the URL handed to _extract_domain
    u_domain           \* parser alone: the result of _extract_domain

vars == <<input, log_files, log_entries, user_risk_scores, worker, faults, response, parsed_lines,
          risk_calls, d_recent, d_entry, d_result, r_entries, r_result, p_line, p_result,
          u_parts, u_domain>>

pipeline_vars == <<input, log_files, log_entries, user_risk_scores, worker, faults, response,
                   parsed_lines, risk_calls>>
detector_vars == <<d_recent, d_entry, d_result>>
scorer_vars == <<r_entries, r_result>>
parser_vars == <<p_line, p_result, u_parts, u_domain>>
\* the variables of the functions checked alone
pure_vars == <<detector_vars, scorer_vars, parser_vars>>

\* the unit of work of db.session: attribute changes of the job's LogFile
\* object and objects added, not yet committed; `inactive` is the state of
\* the session's transaction after a flush or commit that raised
EmptySession ==
    [total_entries |-> None, date_range |-> None, status |-> None, added |-> {},
     inactive |-> FALSE]

InitWorker ==
    [pc |-> "idle", mi |-> 0, li |-> 0, ret |-> "",
     parsed_batch |-> <<>>, recent_entries_by_ip |-> <<>>, all_timestamps |-> <<>>,
     total_processed |-> 0, session |-> EmptySession, detector_calls |-> <<>>]

Init ==
    /\ input \in [JobIds -> Inputs]
    /\ log_files = <<>>
    /\ log_entries = <<>>
    /\ user_risk_scores = {}
    /\ worker = [j \in JobIds |-> InitWorker]
    /\ faults = [j \in JobIds |-> {}]
    /\ response = [j \in JobIds |-> None]
    /\ parsed_lines = [j \in JobIds |-> <<>>]
    /\ risk_calls = [j \in JobIds |-> <<>>]
    /\ d_recent = <<>>
    /\ d_entry = None
    /\ d_result = None
    /\ r_entries = <<>>
    /\ r_result = None
    /\ p_line = None
    /\ p_result = None
    /\ u_parts = None
    /\ u_domain = None

(***************************************************************************)
(* db.session                                                              *)
(***************************************************************************)

\* a successful db.session.commit(): the pending attribute changes reach the row
commit_row(row, session) ==
    [row EXCEPT
        !.total_entries = IF session.total_entries # None THEN session.total_entries[1] ELSE @,
        !.date_range_start = IF session.date_range # None THEN Some(session.date_range[1][1]) ELSE @,
        !.date_range_end = IF session.date_range # None THEN Some(session.date_range[1][2]) ELSE @,
        !.status = IF session.status # None THEN session.status[1] ELSE @]

\* a failed db.session.commit() or bulk_save_objects() rolls the transaction
\* back: pending changes are expired and pending objects expunged. The
\* session's transaction stays inactive until Session.rollback() is called,
\* which the worker never does
session_rollback(session) == [EmptySession EXCEPT !.inactive = TRUE]

\* the outcomes of a write through db.session: on an inactive transaction
\* every operation raises (PendingRollbackError), otherwise the write
\* succeeds or the database refuses it
write_outcomes(session) == IF session.inactive THEN {FALSE} ELSE BOOLEAN

\* db.session.refresh(log_file) expires the object's attributes before it
\* reloads them: its un-flushed changes are discarded
session_refresh(session) ==
    [session EXCEPT !.total_entries = None, !.date_range = None, !.status = None]

(***************************************************************************)
(* routes/logs.py: process_batch                                           *)
(***************************************************************************)

LogEntry(log_file_id, parsed, anomaly_result) ==
    [log_file_id |-> log_file_id,
     timestamp |-> parsed.timestamp,
     domain |-> parsed.domain,
     action |-> parsed.action,
     url_cat |-> parsed.url_cat,
     user_agent |-> parsed.user_agent,
     resp_size |-> parsed.resp_size,
     department |-> parsed.department,
     client_ip |-> parsed.client_ip,
     is_anomalous |-> anomaly_result.is_anomalous,
     anomaly_type |-> anomaly_result.anomaly_type,
     anomaly_reason |-> anomaly_result.reason,
     anomaly_confidence |-> anomaly_result.confidence]

\* faulty variant: the list of one client is handed over for every client
recent_of_one_client(recent_entries_by_ip, client_ip) ==
    IF DOMAIN recent_entries_by_ip # {}
    THEN recent_entries_by_ip[CHOOSE ip \in DOMAIN recent_entries_by_ip : TRUE]
    ELSE <<>>

\* recent_entries_by_ip.get(parsed.client_ip, [])
recent_of(recent_entries_by_ip, client_ip) ==
    IF client_ip \in DOMAIN recent_entries_by_ip THEN recent_entries_by_ip[client_ip] ELSE <<>>

\* faulty variant: the newest entry is dropped when the list is full
push_recent_drop_newest(recent_entries_by_ip, parsed) ==
    LET appended == Append(recent_of(recent_entries_by_ip, parsed.client_ip), parsed)
        kept == IF Len(appended) > RECENT_ENTRIES_CAP
                THEN SubSeq(appended, 1, RECENT_ENTRIES_CAP) ELSE appended
    IN  [ip \in DOMAIN recent_entries_by_ip \cup {parsed.client_ip} |->
            IF ip = parsed.client_ip THEN kept ELSE recent_entries_by_ip[ip]]

\* append to the client's list, then pop(0) when it holds more than 20
push_recent(recent_entries_by_ip, parsed) ==
    LET appended == Append(recent_of(recent_entries_by_ip, parsed.client_ip), parsed)
        kept == IF Len(appended) > RECENT_ENTRIES_CAP THEN Tail(appended) ELSE appended
    IN  [ip \in DOMAIN recent_entries_by_ip \cup {parsed.client_ip} |->
            IF ip = parsed.client_ip THEN kept ELSE recent_entries_by_ip[ip]]

\* one iteration of the loop of process_batch, from the state acc the
\* iterations before it have left: log_entries, recent_entries_by_ip and
\* all_timestamps; detector_calls records each call of
\* detector.detect_anomalies, its two arguments and its result
process_one(log_file_id, parsed, acc) ==
    LET recent == recent_of(acc.recent_entries_by_ip, parsed.client_ip)
        anomaly_result == detect_anomalies(parsed, recent)
    IN  [log_entries |-> Append(acc.log_entries, LogEntry(log_file_id, parsed, anomaly_result)),
         recent_entries_by_ip |-> push_recent(acc.recent_entries_by_ip, parsed),
         all_timestamps |-> Append(acc.all_timestamps, parsed.timestamp),
         detector_calls |-> Append(acc.detector_calls,
             [entry |-> parsed, recent |-> recent, result |-> anomaly_result])]

\* the loop of process_batch over batch_entries (each iteration starts from
\* the value of the state the iteration before it has left)
RECURSIVE process_entries(_, _, _)
process_entries(log_file_id, batch_entries, acc) ==
    IF batch_entries = <<>> THEN acc
    ELSE CHOOSE done \in
             {process_entries(log_file_id, Tail(batch_entries),
                              process_one(log_file_id, Head(batch_entries), a)) : a \in {acc}} : TRUE

\* where an exception raised inside process_batch or parse_line lands: the
\* per-member handler of the archive loop swallows it and goes on with the
\* next member; elsewhere it reaches the handler of _process_log_file
raise_from(w, site) ==
    IF site = "zline"
    THEN [w EXCEPT !.pc = "member", !.mi = @ + 1]
    ELSE [w EXCEPT !.pc = "except_inner"]

(***************************************************************************)
(* routes/logs.py: upload_log, _process_log_file, _process_log_file_async  *)
(* A worker's position pc: idle, start, member (head of the loop over the  *)
(* archive members), zline / line (head of the loop over the lines of a    *)
(* member / of the plain file), persist and progress (the two commits of   *)
(* process_batch), final_flush, finalize, except_inner, except_outer, done *)
(***************************************************************************)

\* LogEntry.query.filter_by(log_file_id=log_file_id).all()
EntriesOf(entries, j) == SelectSeq(entries, LAMBDA e : e.log_file_id = j)

SeqMin(s) == CHOOSE x \in {s[i] : i \in 1..Len(s)} : \A i \in 1..Len(s) : x <= s[i]
SeqMax(s) == CHOOSE x \in {s[i] : i \in 1..Len(s)} : \A i \in 1..Len(s) : x >= s[i]

\* faulty variant: status is left to the column default of models.LogFile
new_log_file_default(filename) ==
    [filename |-> filename, status |-> "uploading", total_entries |-> 0,
     date_range_start |-> None, date_range_end |-> None]

\* LogFile(filename=..., uploaded_by=..., status='processing'); total_entries
\* takes its column default 0 and the date range is NULL
new_log_file(filename) ==
    [filename |-> filename, status |-> "processing", total_entries |-> 0,
     date_range_start |-> None, date_range_end |-> None]

\* faulty variant: the worker thread is started and the row is not committed
upload_log_thread_first(j) ==
    /\ j \notin DOMAIN log_files
    /\ worker[j].pc = "idle"
    /\ worker' = [worker EXCEPT ![j].pc = "start"]
    /\ UNCHANGED <<input, log_files, log_entries, user_risk_scores, faults, response, parsed_lines, risk_calls, pure_vars>>

\* upload_log up to thread.start(): the row is committed with status
\* processing, then the worker thread is started
upload_log(j) ==
    /\ j \notin DOMAIN log_files
    /\ log_files' = log_files @@ (j :> new_log_file(input[j].filename))
    /\ worker' = [worker EXCEPT ![j].pc = "start"]
    /\ UNCHANGED <<input, log_entries, user_risk_scores, faults, response, parsed_lines, risk_calls, pure_vars>>

\* upload_log returns its response
upload_return(j) ==
    /\ j \in DOMAIN log_files
    /\ response[j] = None
    /\ response' = [response EXCEPT ![j] = Some([log_file_id |-> j, status |-> "processing"])]
    /\ UNCHANGED <<input, log_files, log_entries, user_risk_scores, worker, faults, parsed_lines, risk_calls, pure_vars>>

\* faulty variant: only the filename decides, the first bytes are not inspected
is_zip_by_name_only(file) ==
    LET filename == lower(file.filename)
    IN  IF filename # <<>> THEN endswith(filename, <<".", "z", "i", "p">>) ELSE FALSE

\* is_zip of _process_log_file
is_zip(file) ==
    LET filename == lower(file.filename)
        has_zip_extension == IF filename # <<>> THEN endswith(filename, <<".", "z", "i", "p">>) ELSE FALSE
        file_start == file.file_start
        is_zip_file == SubSeq(file_start, 1, Min2(2, Len(file_start))) = PKBytes
    IN  has_zip_extension \/ is_zip_file

\* _process_log_file from its entry to the head of the first loop
Start(j) ==
    /\ worker[j].pc = "start"
    /\ IF j \notin DOMAIN log_files
       THEN worker' = [worker EXCEPT ![j].pc = "done"]
       ELSE IF is_zip(input[j])
       THEN IF input[j].zip_ok
            THEN worker' = [worker EXCEPT ![j].pc = "member", ![j].mi = 1]
            ELSE worker' = [worker EXCEPT ![j].pc = "except_inner"]
       ELSE worker' = [worker EXCEPT ![j].pc = "line", ![j].li = 1]
    /\ faults' = IF j \in DOMAIN log_files /\ is_zip(input[j]) /\ ~input[j].zip_ok
                 THEN [faults EXCEPT ![j] = @ \cup {"archive"}] ELSE faults
    /\ UNCHANGED <<input, log_files, log_entries, user_risk_scores, response, parsed_lines, risk_calls, pure_vars>>

\* one pass through the head of `for zip_file_name in file_list`
NextMember(j) ==
    /\ worker[j].pc = "member"
    /\ LET w == worker[j]
           file_list == input[j].members
       IN  IF w.mi > Len(file_list)
           THEN worker' = [worker EXCEPT ![j].pc = "final_flush"]
           ELSE LET zip_file_name == file_list[w.mi].name
                IN  IF endswith(zip_file_name, <<"/">>)
                    THEN worker' = [worker EXCEPT ![j].mi = @ + 1]
                    ELSE IF ~\E ext \in LogExtensions : endswith(lower(zip_file_name), ext)
                    THEN worker' = [worker EXCEPT ![j].mi = @ + 1]
                    ELSE IF ~file_list[w.mi].readable
                    THEN worker' = [worker EXCEPT ![j].mi = @ + 1]
                    ELSE worker' = [worker EXCEPT ![j].pc = "zline", ![j].li = 1]
    /\ UNCHANGED <<input, log_files, log_entries, user_risk_scores, faults, response, parsed_lines, risk_calls, pure_vars>>

\* the lines the current loop iterates over
lines_of(j) ==
    IF worker[j].pc = "zline" THEN input[j].members[worker[j].mi].lines ELSE input[j].lines

\* one iteration of the loop over lines, up to the call of process_batch
ReadLine(j) ==
    /\ worker[j].pc \in {"line", "zline"}
    /\ LET w == worker[j]
           lines == lines_of(j)
       IN  IF w.li > Len(lines)
           THEN /\ worker' = [worker EXCEPT ![j] =
                        IF w.pc = "zline" THEN [w EXCEPT !.pc = "member", !.mi = @ + 1]
                        ELSE [w EXCEPT !.pc = "final_flush"]]
                /\ UNCHANGED <<faults, parsed_lines>>
           ELSE LET line == lines[w.li]
                    r == parse_line(line)
                IN  IF line.blank
                    THEN /\ worker' = [worker EXCEPT ![j].li = @ + 1]
                         /\ UNCHANGED <<faults, parsed_lines>>
                    ELSE IF r.outcome = "LogParseError"
                    THEN /\ worker' = [worker EXCEPT ![j].li = @ + 1]
                         /\ UNCHANGED <<faults, parsed_lines>>
                    ELSE IF r.outcome = "csv.Error"
                    THEN /\ worker' = [worker EXCEPT ![j] = raise_from(w, w.pc)]
                         /\ faults' = [faults EXCEPT ![j] = @ \cup {"parse"}]
                         /\ UNCHANGED parsed_lines
                    ELSE LET batch == Append(w.parsed_batch, r.entry[1])
                         IN  /\ worker' = [worker EXCEPT ![j] =
                                    IF Len(batch) >= BATCH_SIZE
                                    THEN [w EXCEPT !.parsed_batch = batch, !.pc = "persist", !.ret = w.pc]
                                    ELSE [w EXCEPT !.parsed_batch = batch, !.li = @ + 1]]
                             /\ parsed_lines' = [parsed_lines EXCEPT ![j] = Append(@, r.entry[1])]
                             /\ UNCHANGED faults
    /\ UNCHANGED <<input, log_files, log_entries, user_risk_scores, response, risk_calls, pure_vars>>

\* faulty variant: recent_entries_by_ip is one dict shared by all workers
\* (kept here in the locals of the first job)
PersistBatch_shared_history(j) ==
    /\ worker[j].pc = "persist"
    /\ LET w == worker[j]
           done == process_entries(j, w.parsed_batch,
                       [log_entries |-> <<>>,
                        recent_entries_by_ip |-> worker["j1"].recent_entries_by_ip,
                        all_timestamps |-> w.all_timestamps,
                        detector_calls |-> w.detector_calls])
           shared == [worker EXCEPT !["j1"].recent_entries_by_ip = done.recent_entries_by_ip]
           evaluated == [shared[j] EXCEPT !.all_timestamps = done.all_timestamps,
                                          !.detector_calls = done.detector_calls]
       IN  \E ok \in write_outcomes(w.session) :
              IF ok
              THEN /\ log_entries' = log_entries \o done.log_entries
                   /\ worker' = [shared EXCEPT ![j] =
                          [evaluated EXCEPT !.total_processed = @ + Len(done.log_entries),
                                            !.pc = "progress"]]
                   /\ faults' = faults
              ELSE /\ log_entries' = log_entries
                   /\ worker' = [shared EXCEPT ![j] =
                          raise_from([evaluated EXCEPT !.session = session_rollback(@)], w.ret)]
                   /\ faults' = [faults EXCEPT ![j] = @ \cup {"persist"}]
    /\ UNCHANGED <<input, log_files, user_risk_scores, response, parsed_lines, risk_calls, pure_vars>>

\* faulty variant: total_processed counts the batches, not their entries
PersistBatch_counts_batches(j) ==
    /\ worker[j].pc = "persist"
    /\ LET w == worker[j]
           done == process_entries(j, w.parsed_batch,
                       [log_entries |-> <<>>,
                        recent_entries_by_ip |-> w.recent_entries_by_ip,
                        all_timestamps |-> w.all_timestamps,
                        detector_calls |-> w.detector_calls])
           evaluated == [w EXCEPT !.recent_entries_by_ip = done.recent_entries_by_ip,
                                  !.all_timestamps = done.all_timestamps,
                                  !.detector_calls = done.detector_calls]
       IN  \E ok \in write_outcomes(w.session) :
              IF ok
              THEN /\ log_entries' = log_entries \o done.log_entries
                   /\ worker' = [worker EXCEPT ![j] =
                          [evaluated EXCEPT !.total_processed = @ + 1, !.pc = "progress"]]
                   /\ faults' = faults
              ELSE /\ log_entries' = log_entries
                   /\ worker' = [worker EXCEPT ![j] =
                          raise_from([evaluated EXCEPT !.session = session_rollback(@)], w.ret)]
                   /\ faults' = [faults EXCEPT ![j] = @ \cup {"persist"}]
    /\ UNCHANGED <<input, log_files, user_risk_scores, response, parsed_lines, risk_calls, pure_vars>>

\* faulty variant: total_processed is assigned the size of the batch (`=` for `+=`)
PersistBatch_total_of_last_batch(j) ==
    /\ worker[j].pc = "persist"
    /\ LET w == worker[j]
           done == process_entries(j, w.parsed_batch,
                       [log_entries |-> <<>>,
                        recent_entries_by_ip |-> w.recent_entries_by_ip,
                        all_timestamps |-> w.all_timestamps,
                        detector_calls |-> w.detector_calls])
           evaluated == [w EXCEPT !.recent_entries_by_ip = done.recent_entries_by_ip,
                                  !.all_timestamps = done.all_timestamps,
                                  !.detector_calls = done.detector_calls]
       IN  \E ok \in write_outcomes(w.session) :
              IF ok
              THEN /\ log_entries' = log_entries \o done.log_entries
                   /\ worker' = [worker EXCEPT ![j] =
                          [evaluated EXCEPT !.total_processed = Len(done.log_entries), !.pc = "progress"]]
                   /\ faults' = faults
              ELSE /\ log_entries' = log_entries
                   /\ worker' = [worker EXCEPT ![j] =
                          raise_from([evaluated EXCEPT !.session = session_rollback(@)], w.ret)]
                   /\ faults' = [faults EXCEPT ![j] = @ \cup {"persist"}]
    /\ UNCHANGED <<input, log_files, user_risk_scores, response, parsed_lines, risk_calls, pure_vars>>

\* process_batch up to the first commit: the loop over the batch, then
\* bulk_save_objects and commit, which persist the batch or raise
PersistBatch(j) ==
    /\ worker[j].pc = "persist"
    /\ LET w == worker[j]
           done == process_entries(j, w.parsed_batch,
                       [log_entries |-> <<>>,
                        recent_entries_by_ip |-> w.recent_entries_by_ip,
                        all_timestamps |-> w.all_timestamps,
                        detector_calls |-> w.detector_calls])
           evaluated == [w EXCEPT !.recent_entries_by_ip = done.recent_entries_by_ip,
                                  !.all_timestamps = done.all_timestamps,
                                  !.detector_calls = done.detector_calls]
       IN  \E ok \in write_outcomes(w.session) :
              IF ok
              THEN /\ log_entries' = log_entries \o done.log_entries
                   /\ worker' = [worker EXCEPT ![j] =
                          [evaluated EXCEPT !.total_processed = @ + Len(done.log_entries),
                                            !.pc = "progress"]]
                   /\ faults' = faults
              ELSE /\ log_entries' = log_entries
                   /\ worker' = [worker EXCEPT ![j] =
                          raise_from([evaluated EXCEPT !.session = session_rollback(@)], w.ret)]
                   /\ faults' = [faults EXCEPT ![j] = @ \cup {"persist"}]
    /\ UNCHANGED <<input, log_files, user_risk_scores, response, parsed_lines, risk_calls, pure_vars>>

\* faulty variant: the caller does not reset parsed_batch
return_from_keep_batch(w) ==
    IF w.ret = "final" THEN [w EXCEPT !.pc = "finalize"]
    ELSE [w EXCEPT !.li = @ + 1, !.pc = w.ret]

\* what the caller of process_batch does when it returns
return_from(w) ==
    IF w.ret = "final" THEN [w EXCEPT !.pc = "finalize"]
    ELSE [w EXCEPT !.parsed_batch = <<>>, !.li = @ + 1, !.pc = w.ret]

\* process_batch after the first commit: log_file.total_entries is set to
\* total_processed and committed
UpdateProgress(j) ==
    /\ worker[j].pc = "progress"
    /\ LET w == worker[j]
           session == [w.session EXCEPT !.total_entries = Some(w.total_processed)]
       IN  \E ok \in write_outcomes(w.session) :
              IF ok
              THEN /\ log_files' = [log_files EXCEPT ![j] = commit_row(@, session)]
                   /\ worker' = [worker EXCEPT ![j] = return_from([w EXCEPT !.session = EmptySession])]
                   /\ faults' = faults
              ELSE /\ log_files' = log_files
                   /\ worker' = [worker EXCEPT ![j] =
                          raise_from([w EXCEPT !.session = session_rollback(session)], w.ret)]
                   /\ faults' = [faults EXCEPT ![j] = @ \cup {"progress"}]
    /\ UNCHANGED <<input, log_entries, user_risk_scores, response, parsed_lines, risk_calls, pure_vars>>

\* `if parsed_batch: process_batch(parsed_batch)` after the loops
FinalFlush(j) ==
    /\ worker[j].pc = "final_flush"
    /\ worker' = [worker EXCEPT ![j] =
           IF @.parsed_batch # <<>> THEN [@ EXCEPT !.pc = "persist", !.ret = "final"]
           ELSE [@ EXCEPT !.pc = "finalize"]]
    /\ UNCHANGED <<input, log_files, log_entries, user_risk_scores, faults, response, parsed_lines, risk_calls, pure_vars>>

\* faulty variant: a UserRiskScore is built for every entry, from that entry alone
risk_rows_per_entry(log_file_id, log_entries_for_risk) ==
    {LET risk_scores == calculate_user_risk_scores(log_file_id, <<log_entries_for_risk[i]>>)
         user_id == user_id_of(log_entries_for_risk[i])
     IN  [log_file_id |-> log_file_id,
          user_identifier |-> user_id,
          risk_score |-> risk_scores[user_id].risk_score,
          anomaly_count |-> risk_scores[user_id].anomaly_count,
          blocked_count |-> risk_scores[user_id].blocked_count,
          malicious_domain_count |-> risk_scores[user_id].malicious_domain_count,
          score_metadata |-> <<i>>] : i \in 1..Len(log_entries_for_risk)}

\* the UserRiskScore objects built from calculate_user_risk_scores
risk_rows(log_file_id, log_entries_for_risk) ==
    IF log_entries_for_risk = <<>> THEN {}
    ELSE LET risk_scores == calculate_user_risk_scores(log_file_id, log_entries_for_risk)
         IN  {[log_file_id |-> log_file_id,
               user_identifier |-> user_id,
               risk_score |-> risk_scores[user_id].risk_score,
               anomaly_count |-> risk_scores[user_id].anomaly_count,
               blocked_count |-> risk_scores[user_id].blocked_count,
               malicious_domain_count |-> risk_scores[user_id].malicious_domain_count,
               score_metadata |-> risk_scores[user_id].metadata] : user_id \in DOMAIN risk_scores}

\* the session as _process_log_file leaves it before its last commit: the
\* date range is set, the object is refreshed, the risk scores are added and
\* the status is set to completed
session_at_finalize(w, log_file_id, entries) ==
    LET ranged == IF w.all_timestamps # <<>>
                  THEN [w.session EXCEPT !.date_range =
                           Some(<<SeqMin(w.all_timestamps), SeqMax(w.all_timestamps)>>)]
                  ELSE w.session
        refreshed == session_refresh(ranged)
        log_entries_for_risk == SelectSeq(entries, LAMBDA e : e.log_file_id = log_file_id)
    IN  [refreshed EXCEPT !.added = @ \cup risk_rows(log_file_id, log_entries_for_risk),
                          !.status = Some("completed")]

\* _process_log_file from the date range to its last commit
Finalize(j) ==
    /\ worker[j].pc = "finalize"
    /\ LET w == worker[j]
           session == session_at_finalize(w, j, log_entries)
       IN  \E outcome \in IF w.session.inactive THEN {"read_raises"}
                          ELSE {"ok", "commit_raises", "read_raises"} :
              /\ IF outcome = "ok"
                 THEN /\ log_files' = [log_files EXCEPT ![j] = commit_row(@, session)]
                      /\ user_risk_scores' = user_risk_scores \cup session.added
                      /\ worker' = [worker EXCEPT ![j].session = EmptySession, ![j].pc = "done"]
                      /\ faults' = faults
                 ELSE /\ log_files' = log_files
                      /\ user_risk_scores' = user_risk_scores
                      /\ worker' = [worker EXCEPT ![j].pc = "except_inner",
                                                  ![j].session =
                                                      IF outcome = "commit_raises"
                                                      THEN session_rollback(session)
                                                      ELSE session_refresh(w.session)]
                      /\ faults' = [faults EXCEPT ![j] = @ \cup
                                       {IF outcome = "commit_raises" THEN "final" ELSE "read"}]
              \* calculate_user_risk_scores is called when the query returned rows
              /\ risk_calls' =
                     IF outcome # "read_raises" /\ EntriesOf(log_entries, j) # <<>>
                     THEN [risk_calls EXCEPT ![j] = Append(@, EntriesOf(log_entries, j))]
                     ELSE risk_calls
    /\ UNCHANGED <<input, log_entries, response, parsed_lines, pure_vars>>

\* faulty variant: the handler also records the range of the timestamps seen
inner_handler_session_with_range(w) ==
    [w.session EXCEPT !.status = Some("failed"),
                      !.date_range = IF w.all_timestamps # <<>>
                                     THEN Some(<<SeqMin(w.all_timestamps), SeqMax(w.all_timestamps)>>)
                                     ELSE @]

\* what the handler of _process_log_file sets before it commits
inner_handler_session(w) == [w.session EXCEPT !.status = Some("failed")]

\* `except Exception` of _process_log_file: status failed, commit, raise
InnerHandler(j) ==
    /\ worker[j].pc = "except_inner"
    /\ LET w == worker[j]
           session == inner_handler_session(w)
       IN  \E ok \in write_outcomes(w.session) :
              IF ok
              THEN /\ log_files' = [log_files EXCEPT ![j] = commit_row(@, session)]
                   /\ user_risk_scores' = user_risk_scores \cup session.added
                   /\ worker' = [worker EXCEPT ![j].session = EmptySession, ![j].pc = "except_outer"]
                   /\ faults' = faults
              ELSE /\ log_files' = log_files
                   /\ user_risk_scores' = user_risk_scores
                   /\ worker' = [worker EXCEPT ![j].session = session_rollback(session),
                                               ![j].pc = "except_outer"]
                   /\ faults' = [faults EXCEPT ![j] = @ \cup
                          {IF w.session.inactive THEN "inner_pending_rollback"
                           ELSE "inner_status"}]
    /\ UNCHANGED <<input, log_entries, response, parsed_lines, risk_calls, pure_vars>>

\* `except Exception` of _process_log_file_async: status failed, commit
OuterHandler(j) ==
    /\ worker[j].pc = "except_outer"
    /\ LET w == worker[j]
           session == [w.session EXCEPT !.status = Some("failed")]
       IN  \E ok \in write_outcomes(w.session) :
              IF ok /\ j \in DOMAIN log_files
              THEN /\ log_files' = [log_files EXCEPT ![j] = commit_row(@, session)]
                   /\ user_risk_scores' = user_risk_scores \cup session.added
                   /\ worker' = [worker EXCEPT ![j].session = EmptySession, ![j].pc = "done"]
                   /\ faults' = faults
              ELSE /\ log_files' = log_files
                   /\ user_risk_scores' = user_risk_scores
                   /\ worker' = [worker EXCEPT ![j].session = session_rollback(session),
                                               ![j].pc = "done"]
                   /\ faults' = [faults EXCEPT ![j] = @ \cup
                          {IF w.session.inactive THEN "outer_pending_rollback"
                           ELSE "outer_status"}]
    /\ UNCHANGED <<input, log_entries, response, parsed_lines, risk_calls, pure_vars>>

Next ==
    \E j \in JobIds :
        \/ upload_log(j)
        \/ upload_return(j)
        \/ Start(j)
        \/ NextMember(j)
        \/ ReadLine(j)
        \/ PersistBatch(j)
        \/ UpdateProgress(j)
        \/ FinalFlush(j)
        \/ Finalize(j)
        \/ InnerHandler(j)
        \/ OuterHandler(j)

Spec == Init /\ [][Next]_vars

(***************************************************************************)
(* The detector alone: detect_anomalies applied to an entry and a history  *)
(* drawn from bounded sets                                                 *)
(***************************************************************************)

\* length of the history handed to the detector
MaxRecent == 10

\* the time of the entry under detection, in seconds
DetNow == 1000

MkEntry(timestamp, domain, action, url_cat, user_agent, resp_size, department, client_ip) ==
    [timestamp |-> timestamp, domain |-> domain, action |-> action, url_cat |-> url_cat,
     user_agent |-> user_agent, resp_size |-> resp_size, department |-> department,
     client_ip |-> client_ip]

\* every combination of the five rules' conditions on the entry itself
DetEntries ==
    {MkEntry(DetNow, domain, action, url_cat, user_agent, resp_size, "Engineering", "172.17.3.49") :
        domain \in {"phishing-login.co", "example.com"},
        action \in {"Blocked", "Allowed"},
        url_cat \in {"Phishing", "Search Engine"},
        user_agent \in {<<"Mozilla/5.0">>, <<"python-requests/", "2.25">>},
        resp_size \in {LARGE_DOWNLOAD_THRESHOLD, LARGE_DOWNLOAD_THRESHOLD + 1}}

\* Blocked entries of the same client: one exactly BURST_WINDOW_MINUTES old,
\* one a second older
DetHistory ==
    {MkEntry(DetNow - timedelta_minutes(BURST_WINDOW_MINUTES) - age, "example.com", "Blocked",
             "Search Engine", <<"Mozilla/5.0">>, 0, "Engineering", "172.17.3.49") : age \in {0, 1}}

IdleInput == MkInput(LogFileName, <<>>, FALSE, <<>>, <<>>)

InitDet ==
    /\ input = [j \in JobIds |-> IdleInput]
    /\ log_files = <<>>
    /\ log_entries = <<>>
    /\ user_risk_scores = {}
    /\ worker = [j \in JobIds |-> InitWorker]
    /\ faults = [j \in JobIds |-> {}]
    /\ response = [j \in JobIds |-> None]
    /\ parsed_lines = [j \in JobIds |-> <<>>]
    /\ risk_calls = [j \in JobIds |-> <<>>]
    /\ d_recent = <<>>
    /\ d_entry = None
    /\ d_result = None
    /\ r_entries = <<>>
    /\ r_result = None
    /\ p_line = None
    /\ p_result = None
    /\ u_parts = None
    /\ u_domain = None

\* the caller appends an entry to the history
DetAppend ==
    /\ d_result = None
    /\ Len(d_recent) < MaxRecent
    /\ \E e \in DetHistory : d_recent' = Append(d_recent, e)
    /\ UNCHANGED <<d_entry, d_result, pipeline_vars, scorer_vars, parser_vars>>

\* detector.detect_anomalies(entry, recent)
DetDetect ==
    /\ d_result = None
    /\ \E e \in DetEntries :
          /\ d_entry' = Some(e)
          /\ d_result' = Some(detect_anomalies(e, d_recent))
    /\ UNCHANGED <<d_recent, pipeline_vars, scorer_vars, parser_vars>>

NextDet == DetAppend \/ DetDetect

SpecDet == InitDet /\ [][NextDet]_vars

(***************************************************************************)
(* Properties of the detector (SpecDet)                                    *)
(***************************************************************************)

\* the rules in evaluation order, each with its kind and confidence
RuleKinds == <<"malicious_domain", "risky_category", "unusual_ua", "large_download", "burst_blocked">>
RuleConfidence == <<95, 70, 60, 65, 80>>

\* number of history entries the burst rule is specified to count
BurstCount(e, recent) ==
    Cardinality({i \in 1..Len(recent) :
        /\ recent[i].action = "Blocked"
        /\ recent[i].timestamp >= e.timestamp - BURST_WINDOW_MINUTES * 60
        /\ (recent[i].client_ip = e.client_ip \/ recent[i].department = e.department)})

RuleMatches(k, e, recent) ==
    CASE k = 1 -> e.domain \in MALICIOUS_DOMAINS
      [] k = 2 -> e.url_cat \in RISKY_CATEGORIES
      [] k = 3 -> \E i \in 1..Len(e.user_agent) : e.user_agent[i] \in {"curl/", "python-requests/"}
      [] k = 4 -> e.resp_size > LARGE_DOWNLOAD_THRESHOLD
      [] k = 5 -> e.action = "Blocked" /\ BurstCount(e, recent) + 1 >= BURST_THRESHOLD

\* C8: the verdict is anomalous iff one of the five rules matches; an
\* anomalous verdict carries the kind, a reason and the confidence of one
\* matching rule whose confidence is the maximum over the matching rules (the
\* first such rule in evaluation order), within [0,1]; a non-anomalous verdict
\* has no kind, no reason and no confidence.
C8_VerdictIsBestMatchingRule ==
    d_result # None =>
        LET e == d_entry[1]
            r == d_result[1]
            matching == {k \in 1..5 : RuleMatches(k, e, d_recent)}
        IN  /\ r.is_anomalous <=> matching # {}
            /\ r.is_anomalous =>
                  \E k \in matching :
                     /\ r.anomaly_type = Some(RuleKinds[k])
                     /\ r.confidence = Some(RuleConfidence[k])
                     /\ r.reason # None /\ r.reason[1][1] = RuleKinds[k]
                     /\ \A m \in matching : RuleConfidence[m] <= RuleConfidence[k]
                     /\ \A m \in matching : RuleConfidence[m] = RuleConfidence[k] => k <= m
                     /\ RuleConfidence[k] \in 0..100
            /\ ~r.is_anomalous =>
                  r.anomaly_type = None /\ r.reason = None /\ r.confidence = None

\* a verdict chosen among several matching rules, the burst rule included,
\* where the first matching rule is not the one of highest confidence
C8_Witness ==
    /\ d_result # None
    /\ RuleMatches(5, d_entry[1], d_recent)
    /\ RuleMatches(2, d_entry[1], d_recent)
    /\ RuleMatches(3, d_entry[1], d_recent)
    /\ ~RuleMatches(1, d_entry[1], d_recent)
    /\ d_result[1].anomaly_type = Some("burst_blocked")

\* C9: an entry whose domain is in the denylist gets the verdict
\* malicious_domain with confidence 0.95, for every history and whichever
\* other rules match.
C9_MaliciousDomainWins ==
    (d_result # None /\ d_entry[1].domain \in MALICIOUS_DOMAINS) =>
        /\ d_result[1].is_anomalous
        /\ d_result[1].anomaly_type = Some("malicious_domain")
        /\ d_result[1].confidence = Some(95)

\* a denylisted entry on which the four other rules match as well
C9_Witness ==
    /\ d_result # None
    /\ \A k \in 1..5 : RuleMatches(k, d_entry[1], d_recent)
    /\ d_result[1].anomaly_type = Some("malicious_domain")

\* history entries that are Blocked, of the entry's client and inside the 5
\* minutes before the entry
SameClientBlockedInWindow(e, recent) ==
    {i \in 1..Len(recent) :
        /\ recent[i].action = "Blocked"
        /\ recent[i].client_ip = e.client_ip
        /\ recent[i].timestamp >= e.timestamp - 300
        /\ recent[i].timestamp <= e.timestamp}

\* C10: for a Blocked entry that matches no other rule, 9 Blocked history
\* entries of the same client inside the 5 minutes before it give
\* burst_blocked with confidence 0.80; 8 such entries (the rest of the history
\* being older than the window) do not give burst_blocked.
C10_BurstAtTenNotNine ==
    (/\ d_result # None
     /\ d_entry[1].action = "Blocked"
     /\ \A k \in 1..4 : ~RuleMatches(k, d_entry[1], d_recent)) =>
        LET e == d_entry[1]
            such == SameClientBlockedInWindow(e, d_recent)
            others_old == \A i \in (1..Len(d_recent)) \ such : d_recent[i].timestamp < e.timestamp - 300
        IN  /\ Cardinality(such) = 9 =>
                  /\ d_result[1].anomaly_type = Some("burst_blocked")
                  /\ d_result[1].confidence = Some(80)
            /\ (Cardinality(such) = 8 /\ others_old) =>
                  d_result[1].anomaly_type # Some("burst_blocked")

\* the verdict of a Blocked entry after exactly 9 such history entries
C10_Witness ==
    /\ d_result # None
    /\ d_entry[1].action = "Blocked"
    /\ \A k \in 1..4 : ~RuleMatches(k, d_entry[1], d_recent)
    /\ Len(d_recent) = 9
    /\ Cardinality(SameClientBlockedInWindow(d_entry[1], d_recent)) = 9
    /\ d_result[1].anomaly_type = Some("burst_blocked")

\* the verdict of a Blocked entry after exactly 8 such history entries
C10_NoBurstAtEight ==
    /\ d_result # None
    /\ d_entry[1].action = "Blocked"
    /\ \A k \in 1..4 : ~RuleMatches(k, d_entry[1], d_recent)
    /\ Len(d_recent) = 8
    /\ Cardinality(SameClientBlockedInWindow(d_entry[1], d_recent)) = 8
    /\ ~d_result[1].is_anomalous

(***************************************************************************)
(* Properties of the ingestion pipeline (Spec)                             *)
(***************************************************************************)

Created(j) == j \in DOMAIN log_files

\* the risk scores stored for a job
ScoresOf(scores, j) == {r \in scores : r.log_file_id = j}

\* the parsed event a persisted entry holds
EventOf(row) ==
    MkEntry(row.timestamp, row.domain, row.action, row.url_cat, row.user_agent,
            row.resp_size, row.department, row.client_ip)

EventsOf(rows) == [i \in 1..Len(rows) |-> EventOf(rows[i])]

\* the durable writes of a job: batch persist, total-entries update, final commit
SinkWrites == {"persist", "progress", "final"}

\* every failure other than a line the parser rejects
SinkOrArchiveFailures ==
    SinkWrites \cup {"archive", "read", "inner_status", "outer_status",
                     "inner_pending_rollback", "outer_pending_rollback"}

\* the database did not refuse the handler's write of status failed for a
\* reason of its own (after such a refusal the outer handler's write raises too)
FailedWritable(j) == "inner_status" \notin faults[j]

Done(j) == worker[j].pc = "done"

\* the input is in archive mode by its name or by its first two bytes
ArchiveMode(file) == file.filename = ZipFileName \/ file.file_start = PKBytes

\* the events of the lines of a sequence that parse
RECURSIVE ParseableOf(_)
ParseableOf(lines) ==
    IF lines = <<>> THEN <<>>
    ELSE LET r == IF Head(lines).blank THEN [outcome |-> "blank"] ELSE parse_line(Head(lines))
         IN  (IF r.outcome = "entry" THEN r.entry ELSE <<>>) \o ParseableOf(Tail(lines))

C1_Allowed ==
    {<<"uploading", "processing">>, <<"processing", "completed">>, <<"processing", "failed">>}

\* C1: the durable status of a job only moves uploading -> processing ->
\* completed or processing -> failed; in particular no step of the worker
\* changes a status that is completed or failed, and a job's row is never
\* removed.
C1_StatusMoves ==
    [][\A j \in JobIds :
          /\ (Created(j) /\ log_files'[j].status # log_files[j].status) =>
                 <<log_files[j].status, log_files'[j].status>> \in C1_Allowed
          /\ (~Created(j) /\ j \in DOMAIN log_files') =>
                 log_files'[j].status \in {"uploading", "processing"}
          /\ Created(j) => j \in DOMAIN log_files']_vars

\* both handlers have run after the query for the job's entries raised
C1_Witness ==
    \E j \in JobIds :
        /\ Done(j)
        /\ Created(j) /\ log_files[j].status = "failed"
        /\ "read" \in faults[j]
        /\ "inner_status" \notin faults[j] /\ "outer_status" \notin faults[j]

\* C2: when a durable write of a job has failed (batch persist, total-entries
\* update or the final commit), in single-file or in archive mode, the job
\* never has status completed and, once its worker has ended (the database
\* not having refused the write of status failed for a reason of its own),
\* its status is failed.
C2_SinkFailureFailsJob ==
    \A j \in JobIds :
        (Created(j) /\ faults[j] \cap SinkWrites # {}) =>
            /\ log_files[j].status # "completed"
            /\ (Done(j) /\ FailedWritable(j)) => log_files[j].status = "failed"

\* C3: a completed job's total-entries equals the number of its persisted
\* entries and the number of lines the parser has parsed successfully.
C3_TotalEqualsPersistedEqualsParsed ==
    \A j \in JobIds :
        (Created(j) /\ log_files[j].status = "completed") =>
            /\ log_files[j].total_entries = Len(EntriesOf(log_entries, j))
            /\ Len(EntriesOf(log_entries, j)) = Len(parsed_lines[j])

\* a completed job that needed two flushes
C3_Witness ==
    \E j \in JobIds :
        /\ Created(j) /\ log_files[j].status = "completed"
        /\ log_files[j].total_entries > BATCH_SIZE
        /\ Len(parsed_lines[j]) = log_files[j].total_entries

\* every line of the input, over the plain file and all archive members
AllLines(file) ==
    {file.lines[i] : i \in 1..Len(file.lines)}
    \cup UNION {{file.members[m].lines[i] : i \in 1..Len(file.members[m].lines)} :
                m \in 1..Len(file.members)}

\* a line that is not blank and does not parse into an entry
Malformed(line) == ~line.blank /\ parse_line(line).outcome # "entry"

\* C4: a job whose input contains malformed lines reaches completed when no
\* sink or archive failure occurs (a line that fails to parse is skipped and
\* never aborts the job).
C4_MalformedLinesDoNotAbort ==
    \A j \in JobIds :
        (/\ Done(j)
         /\ \E line \in AllLines(input[j]) : Malformed(line)
         /\ faults[j] \cap SinkOrArchiveFailures = {}) =>
            log_files[j].status = "completed"

\* an archive of two log members, exactly one of which can be read
OneReadableOneNot(file) ==
    /\ ArchiveMode(file) /\ file.zip_ok
    /\ Len(file.members) = 2
    /\ \A m \in 1..2 : \E ext \in LogExtensions : endswith(lower(file.members[m].name), ext)
    /\ file.members[1].readable # file.members[2].readable

ReadableMember(file) == IF file.members[1].readable THEN file.members[1] ELSE file.members[2]

\* C5: for an archive of one readable and one unreadable member, in either
\* order, and no failure of the sink, the job completes and its persisted
\* entries are exactly the lines of the readable member that parse.
C5_ValidMemberOnly ==
    \A j \in JobIds :
        (/\ Done(j)
         /\ OneReadableOneNot(input[j])
         /\ faults[j] \cap SinkOrArchiveFailures = {}) =>
            /\ log_files[j].status = "completed"
            /\ EventsOf(EntriesOf(log_entries, j)) = ParseableOf(ReadableMember(input[j]).lines)

\* C6: when the input is in archive mode (by name or by signature) and the
\* archive cannot be opened, nothing is ever persisted for the job: no entry,
\* total-entries 0, no risk score, never status completed; and the job ends
\* with status failed (the database not having refused the write of status
\* failed for a reason of its own).
C6_ArchiveFailure ==
    \A j \in JobIds :
        (Created(j) /\ ArchiveMode(input[j]) /\ ~input[j].zip_ok) =>
            /\ EntriesOf(log_entries, j) = <<>>
            /\ log_files[j].total_entries = 0
            /\ ScoresOf(user_risk_scores, j) = {}
            /\ log_files[j].status # "completed"
            /\ (Done(j) /\ FailedWritable(j)) => log_files[j].status = "failed"

\* a file with the archive signature but no .zip name, which does not open,
\* has been marked failed
C6_Witness ==
    \E j \in JobIds :
        /\ Done(j)
        /\ input[j].filename = LogFileName /\ input[j].file_start = PKBytes /\ ~input[j].zip_ok
        /\ log_files[j].status = "failed"

\* C7: the step that makes a job failed changes the job's status and nothing
\* else that is durable (persisted entries, total-entries, range, risk
\* scores), and no later step changes any of them: the batches committed
\* before the failure and the last total-entries written stay.
C7_FailedChangesOnlyStatus ==
    [][\A j \in JobIds :
          Created(j) =>
             /\ (log_files[j].status # "failed" /\ log_files'[j].status = "failed") =>
                    /\ log_files'[j] = [log_files[j] EXCEPT !.status = "failed"]
                    /\ EntriesOf(log_entries', j) = EntriesOf(log_entries, j)
                    /\ ScoresOf(user_risk_scores', j) = ScoresOf(user_risk_scores, j)
             /\ log_files[j].status = "failed" =>
                    /\ log_files'[j] = log_files[j]
                    /\ EntriesOf(log_entries', j) = EntriesOf(log_entries, j)
                    /\ ScoresOf(user_risk_scores', j) = ScoresOf(user_risk_scores, j)]_vars

\* a failed job that keeps one committed batch and the total-entries written
\* for it
C7_Witness ==
    \E j \in JobIds :
        /\ Done(j)
        /\ log_files[j].status = "failed"
        /\ log_files[j].total_entries = BATCH_SIZE
        /\ Len(EntriesOf(log_entries, j)) = BATCH_SIZE
        /\ ScoresOf(user_risk_scores, j) = {}
        /\ log_files[j].date_range_start = None

(***************************************************************************)
(* The risk scorer alone: calculate_user_risk_scores applied to a list of  *)
(* entries drawn from bounded sets                                         *)
(***************************************************************************)

\* length of the lists of entries in arbitrary order
MaxRiskLen == 3

\* lengths of the runs of equal entries of one user: entries of kind
\* malicious_domain that are Blocked, other anomalous entries, and entries
\* that are Blocked and not anomalous
MaxMalicious == 5
MaxOtherAnomalous == 5
MaxBlockedOnly == 15

\* the fields of a LogEntry that calculate_user_risk_scores reads
MkRiskEntry(department, client_ip, is_anomalous, anomaly_type, action) ==
    [department |-> department, client_ip |-> client_ip, is_anomalous |-> is_anomalous,
     anomaly_type |-> anomaly_type, action |-> action]

RiskUsers == {<<"Engineering", "10.0.0.1">>, <<"Engineering", "10.0.0.2">>,
              <<"", "10.0.0.1">>, <<"", "10.0.0.2">>}

RiskKinds == {<<TRUE, Some("malicious_domain"), "Blocked">>,
              <<TRUE, Some("risky_category"), "Allowed">>,
              <<TRUE, None, "Allowed">>,
              <<FALSE, None, "Blocked">>,
              <<FALSE, None, "Allowed">>}

RiskEntries == {MkRiskEntry(u[1], u[2], k[1], k[2], k[3]) : u \in RiskUsers, k \in RiskKinds}

Rep(e, n) == [i \in 1..n |-> e]

\* runs of entries of one user, long enough for each part of the score to
\* reach and pass its cap
RiskRuns ==
    {Rep(MkRiskEntry("Engineering", "10.0.0.1", TRUE, Some("malicious_domain"), "Blocked"), m)
     \o Rep(MkRiskEntry("Engineering", "10.0.0.1", TRUE, Some("risky_category"), "Allowed"), a)
     \o Rep(MkRiskEntry("Engineering", "10.0.0.1", FALSE, None, "Blocked"), b) :
        m \in 0..MaxMalicious, a \in 0..MaxOtherAnomalous, b \in 0..MaxBlockedOnly}

RiskInputs == SeqsUpTo(RiskEntries, MaxRiskLen) \cup RiskRuns

InitRisk ==
    /\ input = [j \in JobIds |-> IdleInput]
    /\ log_files = <<>>
    /\ log_entries = <<>>
    /\ user_risk_scores = {}
    /\ worker = [j \in JobIds |-> InitWorker]
    /\ faults = [j \in JobIds |-> {}]
    /\ response = [j \in JobIds |-> None]
    /\ parsed_lines = [j \in JobIds |-> <<>>]
    /\ risk_calls = [j \in JobIds |-> <<>>]
    /\ d_recent = <<>>
    /\ d_entry = None
    /\ d_result = None
    /\ r_entries \in RiskInputs
    /\ r_result = None
    /\ p_line = None
    /\ p_result = None
    /\ u_parts = None
    /\ u_domain = None

\* calculate_user_risk_scores(log_file_id, entries)
RiskScore ==
    /\ r_result = None
    /\ r_result' = Some(calculate_user_risk_scores("j1", r_entries))
    /\ UNCHANGED <<r_entries, pipeline_vars, detector_vars, parser_vars>>

NextRisk == RiskScore

SpecRisk == InitRisk /\ [][NextRisk]_vars

(***************************************************************************)
(* Properties of the risk scorer (SpecRisk)                                *)
(***************************************************************************)

\* C11: for every user identity the risk score equals
\* min(100, min(anomaly_count*10, 50) + min(blocked_count*5, 30) +
\* min(malicious_domain_count*20, 40)) and lies in 0..100; with counts 10, 20
\* and 5 it is 100.
C11_RiskScoreFormula ==
    r_result # None =>
        \A u \in DOMAIN r_result[1] :
            LET row == r_result[1][u]
                a == IF row.anomaly_count * 10 < 50 THEN row.anomaly_count * 10 ELSE 50
                b == IF row.blocked_count * 5 < 30 THEN row.blocked_count * 5 ELSE 30
                m == IF row.malicious_domain_count * 20 < 40 THEN row.malicious_domain_count * 20 ELSE 40
            IN  /\ row.risk_score = (IF a + b + m < 100 THEN a + b + m ELSE 100)
                /\ row.risk_score \in 0..100
                /\ (row.anomaly_count = 10 /\ row.blocked_count = 20 /\ row.malicious_domain_count = 5)
                       => row.risk_score = 100

\* one user with 10 anomalous, 20 Blocked and 5 malicious_domain entries,
\* the three parts summing to 120
C11_Witness ==
    /\ r_result # None
    /\ \E u \in DOMAIN r_result[1] :
          /\ r_result[1][u].anomaly_count = 10
          /\ r_result[1][u].blocked_count = 20
          /\ r_result[1][u].malicious_domain_count = 5
          /\ r_result[1][u].risk_score = 100

\* an entry's user identity: its department if non-empty, else its client address
IdentityOf(e) == IF e.department = "" THEN e.client_ip ELSE e.department

\* the positions of the entries of identity u that satisfy P
CountOf(entries, u, P(_)) ==
    Cardinality({i \in 1..Len(entries) : IdentityOf(entries[i]) = u /\ P(entries[i])})

IsAnomalous(e) == e.is_anomalous
IsBlocked(e) == e.action = "Blocked"
IsMaliciousDomain(e) == e.anomaly_type = Some("malicious_domain")

\* C12: calculate_user_risk_scores returns exactly one result per distinct
\* user identity of its input (department if non-empty, else client address),
\* and each result's anomaly, blocked and malicious-domain counts are the
\* numbers of that identity's entries that are anomalous, have action
\* Blocked, and have kind malicious_domain.
C12_OneResultPerIdentity ==
    r_result # None =>
        /\ DOMAIN r_result[1] = {IdentityOf(r_entries[i]) : i \in 1..Len(r_entries)}
        /\ \A u \in DOMAIN r_result[1] :
              /\ r_result[1][u].user_identifier = u
              /\ r_result[1][u].anomaly_count = CountOf(r_entries, u, IsAnomalous)
              /\ r_result[1][u].blocked_count = CountOf(r_entries, u, IsBlocked)
              /\ r_result[1][u].malicious_domain_count = CountOf(r_entries, u, IsMaliciousDomain)

\* entries of one department from two addresses, interleaved with an entry
\* without department from one of these addresses
C12_Witness ==
    /\ r_result # None
    /\ Len(r_entries) = 3
    /\ r_entries[1].department = "Engineering" /\ r_entries[1].client_ip = "10.0.0.1"
    /\ r_entries[2].department = "" /\ r_entries[2].client_ip = "10.0.0.1"
    /\ r_entries[3].department = "Engineering" /\ r_entries[3].client_ip = "10.0.0.2"
    /\ r_entries[1].is_anomalous /\ r_entries[3].action = "Blocked"
    /\ DOMAIN r_result[1] = {"Engineering", "10.0.0.1"}

(***************************************************************************)
(* Properties of the ingestion pipeline (Spec), continued                  *)
(***************************************************************************)

\* the worker of a job is past its loops over lines and past the final flush
PastIngestion(j) == worker[j].pc \in {"done", "except_inner", "except_outer"}

\* C13: within a job calculate_user_risk_scores is called at most once, after
\* the loops over the lines have ended and every parsed batch, the final
\* partial one included, has been flushed, and with all persisted entries of
\* the job; risk scores of a job are durable only once its worker has ended
\* with status completed; a completed job with at least one entry has exactly
\* one risk score per distinct user identity of its entries.
C13_AggregatorOnceAfterIngestion ==
    \A j \in JobIds :
        LET entries == EntriesOf(log_entries, j)
            ids == {IdentityOf(entries[i]) : i \in 1..Len(entries)}
            scores == ScoresOf(user_risk_scores, j)
        IN  /\ Len(risk_calls[j]) <= 1
            /\ risk_calls[j] # <<>> =>
                   /\ PastIngestion(j)
                   /\ risk_calls[j][1] = entries
                   /\ Len(entries) >= Len(parsed_lines[j])
            /\ scores # {} =>
                   /\ Done(j)
                   /\ log_files[j].status = "completed"
                   /\ Len(risk_calls[j]) = 1
            /\ (Created(j) /\ log_files[j].status = "completed" /\ entries # <<>>) =>
                   /\ {r.user_identifier : r \in scores} = ids
                   /\ Cardinality(scores) = Cardinality(ids)

\* a completed job of three entries of two user identities, persisted by one
\* full batch and the final partial batch
C13_Witness ==
    \E j \in JobIds :
        /\ Done(j) /\ log_files[j].status = "completed"
        /\ Len(EntriesOf(log_entries, j)) = BATCH_SIZE + 1
        /\ Len(risk_calls[j]) = 1
        /\ Cardinality(ScoresOf(user_risk_scores, j)) = 2
        /\ Cardinality({IdentityOf(e) : e \in {EntriesOf(log_entries, j)[i] : i \in 1..(BATCH_SIZE + 1)}}) = 2

\* the timestamps of the lines of a job that parsed
ParsedTimestamps(j) == {parsed_lines[j][i].timestamp : i \in 1..Len(parsed_lines[j])}

\* C14: when a job is completed and at least one of its lines parsed, its
\* durable range start and end are the minimum and the maximum timestamp
\* over the parsed lines; when no line parsed, the range is unset.
C14_RangeIsMinMaxOfParsed ==
    \A j \in JobIds :
        (Created(j) /\ log_files[j].status = "completed") =>
            IF parsed_lines[j] # <<>>
            THEN /\ log_files[j].date_range_start # None
                 /\ log_files[j].date_range_end # None
                 /\ log_files[j].date_range_start[1] \in ParsedTimestamps(j)
                 /\ log_files[j].date_range_end[1] \in ParsedTimestamps(j)
                 /\ \A t \in ParsedTimestamps(j) :
                        log_files[j].date_range_start[1] <= t /\ t <= log_files[j].date_range_end[1]
            ELSE log_files[j].date_range_start = None /\ log_files[j].date_range_end = None

\* C15: the row of a job is durable with status processing before the job's
\* worker is started and before it reads a line, and upload_log returns the
\* job id with status processing without waiting for the worker: the
\* response can be returned at every position of the worker.
C15_RowBeforeWorkerAndResponse ==
    \A j \in JobIds :
        /\ worker[j].pc # "idle" => Created(j)
        /\ worker[j].pc = "start" =>
               /\ log_files[j].status = "processing"
               /\ parsed_lines[j] = <<>> /\ worker[j].li = 0 /\ worker[j].mi = 0
        /\ response[j] # None =>
               /\ Created(j)
               /\ response[j][1] = [log_file_id |-> j, status |-> "processing"]
        /\ (Created(j) /\ response[j] = None) => ENABLED upload_return(j)

\* the response has been returned while the worker is in its loop over lines
C15_Witness ==
    \E j \in JobIds :
        /\ response[j] # None
        /\ worker[j].pc = "line" /\ worker[j].li = 2
        /\ log_files[j].status = "processing"

(***************************************************************************)
(* Two jobs whose workers run concurrently                                 *)
(***************************************************************************)

JobIds2 == {"j1", "j2"}

\* lines of a plain file of a concurrent job: fewer than BURST_THRESHOLD in
\* one file, at least BURST_THRESHOLD in two
Lines2 == 5

\* a plain file of Blocked requests of one client, and an archive of one
\* member holding one full batch of them
Inputs2 ==
    {MkInput(LogFileName, <<"\"", "M">>, FALSE, <<>>, Rep(LineA, Lines2)),
     MkInput(ZipFileName, PKBytes, TRUE, <<MkMember(<<"m", ".", "l", "o", "g">>, TRUE, Rep(LineA, BATCH_SIZE))>>, <<>>)}

Init2 ==
    /\ input \in [JobIds2 -> Inputs2]
    /\ log_files = <<>>
    /\ log_entries = <<>>
    /\ user_risk_scores = {}
    /\ worker = [j \in JobIds2 |-> InitWorker]
    /\ faults = [j \in JobIds2 |-> {}]
    /\ response = [j \in JobIds2 |-> None]
    /\ parsed_lines = [j \in JobIds2 |-> <<>>]
    /\ risk_calls = [j \in JobIds2 |-> <<>>]
    /\ d_recent = <<>>
    /\ d_entry = None
    /\ d_result = None
    /\ r_entries = <<>>
    /\ r_result = None
    /\ p_line = None
    /\ p_result = None
    /\ u_parts = None
    /\ u_domain = None

\* a step of upload_log or of the worker thread of one of the two jobs
Next2 ==
    \E j \in JobIds2 :
        \/ upload_log(j)
        \/ upload_return(j)
        \/ Start(j)
        \/ NextMember(j)
        \/ ReadLine(j)
        \/ PersistBatch(j)
        \/ UpdateProgress(j)
        \/ FinalFlush(j)
        \/ Finalize(j)
        \/ InnerHandler(j)
        \/ OuterHandler(j)

Spec2 == Init2 /\ [][Next2]_vars

\* the persisted entries (with their verdicts) that the lines of job j parsed
\* so far give when the job is evaluated alone, from an empty history
AloneEntries(j) ==
    process_entries(j, parsed_lines[j],
        [log_entries |-> <<>>, recent_entries_by_ip |-> <<>>, all_timestamps |-> <<>>,
         detector_calls |-> <<>>]).log_entries

IsPrefix(s, t) == Len(s) <= Len(t) /\ s = SubSeq(t, 1, Len(s))

\* a write of the job failed inside the per-member handler of archive mode
\* (which keeps the batch, see C2)
SwallowedSinkFailure(j) == is_zip(input[j]) /\ faults[j] \cap {"persist", "progress"} # {}

\* what is durable or local for job j
JobView(j) ==
    <<worker[j], faults[j], parsed_lines[j], risk_calls[j],
      IF Created(j) THEN <<log_files[j]>> ELSE <<>>,
      EntriesOf(log_entries, j), ScoresOf(user_risk_scores, j)>>

JobViewNext(j) ==
    <<worker'[j], faults'[j], parsed_lines'[j], risk_calls'[j],
      IF j \in DOMAIN log_files' THEN <<log_files'[j]>> ELSE <<>>,
      EntriesOf(log_entries', j), ScoresOf(user_risk_scores', j)>>

\* the state of job j is as when it runs alone on its input
AsAlone(j) ==
    /\ ~SwallowedSinkFailure(j) => IsPrefix(EntriesOf(log_entries, j), AloneEntries(j))
    /\ Created(j) => log_files[j].total_entries <= Len(EntriesOf(log_entries, j))
    /\ (Created(j) /\ log_files[j].status = "completed" /\ ~SwallowedSinkFailure(j)) =>
           /\ EntriesOf(log_entries, j) = AloneEntries(j)
           /\ log_files[j].total_entries = Len(AloneEntries(j))
           /\ ScoresOf(user_risk_scores, j) = risk_rows(j, AloneEntries(j))

\* C16: for two jobs whose workers run concurrently, under every
\* interleaving, the verdicts, persisted entries, total-entries and risk
\* scores of each job are those the job's own lines give when it runs alone,
\* and every step changes the history, buffer, timestamps, counters and
\* durable data of one job only.
C16_JobsAreIsolated ==
    /\ [](\A j \in JobIds2 : AsAlone(j))
    /\ [][\A j, k \in JobIds2 :
              (j # k /\ JobViewNext(j) # JobView(j)) => JobViewNext(k) = JobView(k)]_vars

\* both jobs completed, their batches persisted alternately, with as many
\* Blocked entries of one client between them as the burst rule needs and no
\* burst verdict
C16_Witness ==
    /\ \A j \in JobIds2 :
          /\ Done(j) /\ Created(j) /\ log_files[j].status = "completed"
          /\ Len(EntriesOf(log_entries, j)) = Lines2
          /\ faults[j] = {}
    /\ Len(log_entries) >= BURST_THRESHOLD
    /\ log_entries[1].log_file_id # log_entries[BATCH_SIZE + 1].log_file_id
    /\ log_entries[Len(log_entries)].log_file_id # log_entries[Len(log_entries) - 1].log_file_id
    /\ \A i \in 1..Len(log_entries) : ~log_entries[i].is_anomalous

(***************************************************************************)
(* The parser alone: parse_line and _extract_domain applied to lines and   *)
(* URLs drawn from bounded sets                                            *)
(***************************************************************************)

\* number of fields of the lines that have too many fields
MaxFields == 35

\* lines by what parse_line looks at: whether csv.reader raises, the number
\* of fields, whether field 0 is a timestamp, the URL
ParseLines ==
    {BlankLine}
    \cup {MkLine(FALSE, csv_error, nfields, ts, url, "Allowed", "News", <<"Mozilla/5.0">>, 0, "Sales", "10.0.0.1") :
             csv_error \in BOOLEAN,
             nfields \in {1, EXPECTED_FIELD_COUNT - 1, EXPECTED_FIELD_COUNT} \cup (EXPECTED_FIELD_COUNT + 1)..MaxFields,
             ts \in {None, Some(100)},
             url \in {<<>>, <<"example.com", "/", "path">>, <<"https://", "example.com", ":", "8443", "/">>}}

UrlSchemes == {<<>>, <<"http://">>, <<"https://">>}
\* hosts: none, a name, an address, an unclosed bracket
UrlHosts == {<<>>, <<"example.com">>, <<"172.17.3.49">>, <<"[", "fe80">>}
UrlPorts == {<<>>, <<":", "8080">>}
\* what follows the "/" after the host
UrlPaths == {<<>>, <<"path">>, <<"path", "?", "query=1">>, <<"a", ":", "b", "/", "c">>,
             <<"http://", "x">>, <<"#", "f">>, <<"]">>}

MkUrlParts(scheme, host, port, has_path, path) ==
    [scheme |-> scheme, host |-> host, port |-> port, has_path |-> has_path, path |-> path]

UrlParts ==
    {MkUrlParts(scheme, host, port, TRUE, path) :
        scheme \in UrlSchemes, host \in UrlHosts, port \in UrlPorts, path \in UrlPaths}
    \cup {MkUrlParts(scheme, host, port, FALSE, <<>>) :
        scheme \in UrlSchemes, host \in UrlHosts, port \in UrlPorts}

\* the URL made of the parts
UrlOf(parts) ==
    parts.scheme \o parts.host \o parts.port
    \o (IF parts.has_path THEN <<"/">> \o parts.path ELSE <<>>)

InitParse ==
    /\ input = [j \in JobIds |-> IdleInput]
    /\ log_files = <<>>
    /\ log_entries = <<>>
    /\ user_risk_scores = {}
    /\ worker = [j \in JobIds |-> InitWorker]
    /\ faults = [j \in JobIds |-> {}]
    /\ response = [j \in JobIds |-> None]
    /\ parsed_lines = [j \in JobIds |-> <<>>]
    /\ risk_calls = [j \in JobIds |-> <<>>]
    /\ d_recent = <<>>
    /\ d_entry = None
    /\ d_result = None
    /\ r_entries = <<>>
    /\ r_result = None
    /\ p_line \in {Some(l) : l \in ParseLines}
    /\ p_result = None
    /\ u_parts \in {Some(u) : u \in UrlParts}
    /\ u_domain = None

\* parser.parse_line(line)
ParseLine ==
    /\ p_result = None
    /\ p_result' = Some(parse_line(p_line[1]))
    /\ UNCHANGED <<p_line, u_parts, u_domain, pipeline_vars, detector_vars, scorer_vars>>

\* parser._extract_domain(url)
ExtractDomain ==
    /\ u_domain = None
    /\ u_domain' = Some(extract_domain(UrlOf(u_parts[1])))
    /\ UNCHANGED <<p_line, p_result, u_parts, pipeline_vars, detector_vars, scorer_vars>>

NextParse == ParseLine \/ ExtractDomain

SpecParse == InitParse /\ [][NextParse]_vars

(***************************************************************************)
(* Properties of the parser (SpecParse)                                    *)
(***************************************************************************)

\* C17: parse_line applied to a line whose field count is not 34 yields
\* LogParseError and no entry; for every line the outcome is either one
\* entry or one LogParseError, never another raised error.
C17_ParseLineEntryOrLogParseError ==
    p_result # None =>
        LET r == p_result[1]
        IN  /\ p_line[1].nfields # 34 => (r.outcome = "LogParseError" /\ r.entry = None)
            /\ r.outcome \in {"entry", "LogParseError"}
            /\ r.outcome = "entry" <=> r.entry # None

HistorySize(w) ==
    LET h == w.recent_entries_by_ip
        RECURSIVE Sum(_)
        Sum(ips) == IF ips = {} THEN 0
                    ELSE LET ip == CHOOSE x \in ips : TRUE
                         IN  Len(h[ip]) + Sum(ips \ {ip})
    IN  Sum(DOMAIN h)

\* C19: whatever the outcomes of the durable writes made during flushes, no
\* parsed line of a job is persisted, evaluated by the detector or appended
\* to the rolling history more than once, and a completed job has persisted
\* every parsed line.
C19_EachParsedLineOnce ==
    \A j \in JobIds :
        /\ Len(EntriesOf(log_entries, j)) <= Len(parsed_lines[j])
        /\ Len(worker[j].all_timestamps) <= Len(parsed_lines[j])
        /\ HistorySize(worker[j]) <= Len(parsed_lines[j])
        /\ (Created(j) /\ log_files[j].status = "completed") =>
               EventsOf(EntriesOf(log_entries, j)) = parsed_lines[j]

C21_BufferAtMostBatchSize ==
    \A j \in JobIds : Len(worker[j].parsed_batch) <= BATCH_SIZE

(***************************************************************************)
(* One job on long inputs: files of more lines than a client's history     *)
(* holds, and an archive of several members                                *)
(***************************************************************************)

\* lines of the longest input
LongLines == 22

\* a well-formed line that only the burst rule can match
HistLine(ts, action, department, client_ip) ==
    MkLine(FALSE, FALSE, 34, Some(ts), <<"example.com", "/", "x">>, action, "News",
           <<"Mozilla/5.0">>, 2000, department, client_ip)

\* Blocked events of one client, one second apart
AllBlockedLines ==
    [i \in 1..LongLines |-> HistLine(100 + i, "Blocked", "", "10.0.0.1")]

\* BURST_THRESHOLD - 1 Blocked events of one client, then Allowed events of
\* the client, then one Blocked event, all within the burst window
BlockedThenAllowedLines ==
    [i \in 1..LongLines |->
        HistLine(100 + i,
                 IF i < BURST_THRESHOLD \/ i = LongLines THEN "Blocked" ELSE "Allowed",
                 "", "10.0.0.1")]

\* BURST_THRESHOLD - 1 Blocked events of one client, then a Blocked event of
\* another client of the same department
TwoClientLines ==
    [i \in 1..BURST_THRESHOLD |->
        HistLine(100 + i, "Blocked", "Engineering",
                 IF i < BURST_THRESHOLD THEN "10.0.0.2" ELSE "10.0.0.1")]

\* BURST_THRESHOLD - 1 Blocked events of one client, then a Blocked event of
\* the client one second after the first of them has left the burst window
OutOfWindowLines ==
    [i \in 1..BURST_THRESHOLD |->
        HistLine(IF i < BURST_THRESHOLD THEN 100 + i
                 ELSE 101 + timedelta_minutes(BURST_WINDOW_MINUTES) + 1,
                 "Blocked", "", "10.0.0.1")]

\* an archive whose first member fills a batch and whose next three members
\* hold one line each
LongArchive ==
    <<MkMember(<<"a", ".", "c", "s", "v">>, TRUE,
               [i \in 1..BATCH_SIZE |-> HistLine(100 + i, "Blocked", "", "10.0.0.1")])>>
    \o [m \in 1..3 |->
           MkMember(<<"b", ".", "l", "o", "g">>, TRUE,
                    <<HistLine(100 + BATCH_SIZE + m, "Blocked", "", "10.0.0.1")>>)]

LongInputs ==
    {MkInput(LogFileName, <<"\"", "M">>, FALSE, <<>>, ls) :
        ls \in {AllBlockedLines, BlockedThenAllowedLines, TwoClientLines, OutOfWindowLines}}
    \cup {MkInput(ZipFileName, PKBytes, TRUE, LongArchive, <<>>)}

InitLong ==
    /\ input \in [JobIds -> LongInputs]
    /\ log_files = <<>>
    /\ log_entries = <<>>
    /\ user_risk_scores = {}
    /\ worker = [j \in JobIds |-> InitWorker]
    /\ faults = [j \in JobIds |-> {}]
    /\ response = [j \in JobIds |-> None]
    /\ parsed_lines = [j \in JobIds |-> <<>>]
    /\ risk_calls = [j \in JobIds |-> <<>>]
    /\ d_recent = <<>>
    /\ d_entry = None
    /\ d_result = None
    /\ r_entries = <<>>
    /\ r_result = None
    /\ p_line = None
    /\ p_result = None
    /\ u_parts = None
    /\ u_domain = None

SpecLong == InitLong /\ [][Next]_vars

\* the last n elements of a sequence
LastN(s, n) == IF Len(s) <= n THEN s ELSE SubSeq(s, Len(s) - n + 1, Len(s))

\* the events the loop of process_batch has processed so far, in the order
\* it processed them
Processed(j) == [k \in 1..Len(worker[j].detector_calls) |-> worker[j].detector_calls[k].entry]

\* the events of a sequence that have a client address
OfClient(events, client_ip) == SelectSeq(events, LAMBDA e : e.client_ip = client_ip)

ClientIps == {"10.0.0.1", "10.0.0.2"}

\* C22: after any sequence of processed events, the history of each client
\* address holds at most RECENT_ENTRIES_CAP events, and they are the most
\* recent min(n, RECENT_ENTRIES_CAP) of the n processed events of that
\* address, in the order they were processed (the oldest is evicted first).
C22_HistoryIsLastTwenty ==
    \A j \in JobIds : \A ip \in ClientIps :
        LET history == recent_of(worker[j].recent_entries_by_ip, ip)
        IN  /\ Len(history) <= RECENT_ENTRIES_CAP
            /\ history = LastN(OfClient(Processed(j), ip), RECENT_ENTRIES_CAP)
            /\ DOMAIN worker[j].recent_entries_by_ip \subseteq ClientIps

\* a client of which more events were processed than its history holds
C22_Witness ==
    \E j \in JobIds : \E ip \in ClientIps :
        /\ Len(OfClient(Processed(j), ip)) > RECENT_ENTRIES_CAP
        /\ Len(recent_of(worker[j].recent_entries_by_ip, ip)) = RECENT_ENTRIES_CAP

\* the place of an event among the parsed lines of a job (the lines of the
\* long inputs differ in their timestamps)
PositionOf(j, e) == CHOOSE i \in 1..Len(parsed_lines[j]) : parsed_lines[j][i] = e

\* the history of an event's client after the lines parsed before the event
HistoryBefore(j, e) ==
    LastN(OfClient(SubSeq(parsed_lines[j], 1, PositionOf(j, e) - 1), e.client_ip),
          RECENT_ENTRIES_CAP)

\* C23: every event handed to the detector is a parsed line of the job and
\* is handed over with the history of its client as it stands after all the
\* lines parsed before it, in input order, across batches and archive
\* members, and before the event itself is appended.
C23_EvaluatedAgainstEarlierLines ==
    \A j \in JobIds : \A k \in 1..Len(worker[j].detector_calls) :
        LET call == worker[j].detector_calls[k]
        IN  /\ \E i \in 1..Len(parsed_lines[j]) : parsed_lines[j][i] = call.entry
            /\ call.recent = HistoryBefore(j, call.entry)

(***************************************************************************)
(* The burst rule alone: detect_anomalies applied to histories that mix    *)
(* entries inside and outside the window, of the client and of others      *)
(***************************************************************************)

\* entries of the history after its run of counted entries
MaxBurstTail == 2

\* a Blocked entry of the client under detection, one second old
InWindowEntry ==
    MkEntry(DetNow - 1, "example.com", "Blocked", "Search Engine", <<"Mozilla/5.0">>, 0,
            "Engineering", "172.17.3.49")

\* history entries that differ from InWindowEntry in one respect: exactly
\* BURST_WINDOW_MINUTES old, a second older, a second after the entry under
\* detection, Allowed, of another client of the department, of another
\* client of another department
BurstKinds ==
    {[InWindowEntry EXCEPT !.timestamp = DetNow - timedelta_minutes(BURST_WINDOW_MINUTES)],
     [InWindowEntry EXCEPT !.timestamp = DetNow - timedelta_minutes(BURST_WINDOW_MINUTES) - 1],
     [InWindowEntry EXCEPT !.timestamp = DetNow + 1],
     [InWindowEntry EXCEPT !.action = "Allowed"],
     [InWindowEntry EXCEPT !.client_ip = "172.17.3.50"],
     [InWindowEntry EXCEPT !.client_ip = "172.17.3.50", !.department = "Sales"]}

\* a run of 0, BURST_THRESHOLD - 2 or BURST_THRESHOLD - 1 counted entries,
\* then at most MaxBurstTail entries of the kinds above
BurstHistories ==
    {Rep(InWindowEntry, n) \o tail :
        n \in {0, BURST_THRESHOLD - 2, BURST_THRESHOLD - 1},
        tail \in SeqsUpTo(BurstKinds, MaxBurstTail)}

InitBurst ==
    /\ input = [j \in JobIds |-> IdleInput]
    /\ log_files = <<>>
    /\ log_entries = <<>>
    /\ user_risk_scores = {}
    /\ worker = [j \in JobIds |-> InitWorker]
    /\ faults = [j \in JobIds |-> {}]
    /\ response = [j \in JobIds |-> None]
    /\ parsed_lines = [j \in JobIds |-> <<>>]
    /\ risk_calls = [j \in JobIds |-> <<>>]
    /\ d_recent \in BurstHistories
    /\ d_entry = None
    /\ d_result = None
    /\ r_entries = <<>>
    /\ r_result = None
    /\ p_line = None
    /\ p_result = None
    /\ u_parts = None
    /\ u_domain = None

SpecBurst == InitBurst /\ [][DetDetect]_vars

\* history entries that are Blocked, share the client address or the
\* department of the entry, and lie in the window that ends at the entry's
\* time and is BURST_WINDOW_MINUTES long, both ends included
InTrailingWindow(e, recent) ==
    {i \in 1..Len(recent) :
        /\ recent[i].action = "Blocked"
        /\ (recent[i].client_ip = e.client_ip \/ recent[i].department = e.department)
        /\ recent[i].timestamp >= e.timestamp - BURST_WINDOW_MINUTES * 60
        /\ recent[i].timestamp <= e.timestamp}

\* C24: an entry that matches no other rule gets the verdict burst_blocked
\* exactly when it is Blocked and the history entries that are Blocked,
\* share its client address or department and lie in the trailing window
\* [entry time - 5 minutes, entry time] number at least BURST_THRESHOLD - 1:
\* an entry exactly 5 minutes old counts, an entry timestamped after the
\* entry under detection does not.
C24_BurstCountsTrailingWindow ==
    (/\ d_result # None
     /\ \A k \in 1..4 : ~RuleMatches(k, d_entry[1], d_recent)) =>
        LET e == d_entry[1]
        IN  d_result[1].anomaly_type = Some("burst_blocked")
            <=> /\ e.action = "Blocked"
                /\ Cardinality(InTrailingWindow(e, d_recent)) + 1 >= BURST_THRESHOLD

(***************************************************************************)
(* The risk scorer applied to an input and again to the input reordered    *)
(***************************************************************************)

\* a sequence with the elements at two places exchanged
Swap(s, i, k) == [s EXCEPT ![i] = s[k], ![k] = s[i]]

\* calculate_user_risk_scores called on the entries in another order: two
\* entries change places (every permutation of a short input is reached by
\* repeated exchanges; a long run is reordered once)
RiskReorder ==
    /\ r_result # None
    /\ Len(r_entries) <= MaxRiskLen \/ r_entries \in RiskRuns
    /\ \E i, k \in 1..Len(r_entries) :
          /\ i < k
          /\ r_entries[i] # r_entries[k]
          /\ r_entries' = Swap(r_entries, i, k)
          /\ r_result' = Some(calculate_user_risk_scores("j1", Swap(r_entries, i, k)))
    /\ UNCHANGED <<pipeline_vars, detector_vars, parser_vars>>

NextReorder == RiskScore \/ RiskReorder

SpecReorder == InitRisk /\ [][NextReorder]_vars

\* C25: calculate_user_risk_scores gives the same mapping (identities and,
\* for each, score, the three counts and the count per anomaly kind) for
\* every order of the same entries.
C25_OrderDoesNotMatter ==
    [][(r_result # None /\ r_result' # None) => r_result' = r_result]_vars

\* a long run reordered, for a user with entries of two anomaly kinds
C25_Witness ==
    /\ r_result # None
    /\ Len(r_entries) > MaxRiskLen
    /\ r_entries \notin RiskRuns
    /\ \E u \in DOMAIN r_result[1] : Cardinality(DOMAIN r_result[1][u].metadata) = 2

(***************************************************************************)
(* Archive mode and the members that contribute lines                      *)
(***************************************************************************)

\* the last characters of a name are those of a word, in either case
EndsWithAnyCase(name, word) ==
    /\ Len(name) >= Len(word)
    /\ \A i \in 1..Len(word) : name[Len(name) - Len(word) + i] \in word[i]

DotZip == <<{"."}, {"z", "Z"}, {"i", "I"}, {"p", "P"}>>
DotCsv == <<{"."}, {"c", "C"}, {"s", "S"}, {"v", "V"}>>
DotTxt == <<{"."}, {"t", "T"}, {"x", "X"}, {"t", "T"}>>
DotLog == <<{"."}, {"l", "L"}, {"o", "O"}, {"g", "G"}>>

\* the name ends in .zip or the content begins with the bytes PK
IsArchive(file) ==
    \/ EndsWithAnyCase(file.filename, DotZip)
    \/ (Len(file.file_start) >= 2 /\ file.file_start[1] = "P" /\ file.file_start[2] = "K")

\* a member that is not a directory entry and is named as a log file
IsLogMember(member) ==
    /\ member.name[Len(member.name)] # "/"
    /\ \E word \in {DotCsv, DotTxt, DotLog} : EndsWithAnyCase(member.name, word)

\* the events of the log members that can be read, in member order
RECURSIVE MemberEvents(_)
MemberEvents(members) ==
    IF members = <<>> THEN <<>>
    ELSE (IF IsLogMember(Head(members)) /\ Head(members).readable
          THEN ParseableOf(Head(members).lines) ELSE <<>>)
         \o MemberEvents(Tail(members))

\* s is t with some elements left out
RECURSIVE IsSubsequence(_, _)
IsSubsequence(s, t) ==
    IF s = <<>> THEN TRUE
    ELSE IF t = <<>> THEN FALSE
    ELSE IF Head(s) = Head(t) THEN IsSubsequence(Tail(s), Tail(t))
    ELSE IsSubsequence(s, Tail(t))

\* the worker has taken the archive branch: it has tried to open the archive
TookArchiveBranch(j) == worker[j].mi >= 1 \/ "archive" \in faults[j]

\* C26: a job is processed in archive mode exactly when the file name ends
\* in .zip (in either case) or the content begins with PK. In archive mode
\* only the members that are not directories and are named .csv, .txt or
\* .log contribute lines, in member order; the other members are skipped and
\* do not affect the job: when nothing fails, the job completes and its
\* parsed and persisted events are those of the log members, in order.
C26_ArchiveModeAndMembers ==
    \A j \in JobIds :
        (Created(j) /\ worker[j].pc \notin {"idle", "start"}) =>
            /\ TookArchiveBranch(j) <=> IsArchive(input[j])
            /\ ~IsArchive(input[j]) => IsSubsequence(parsed_lines[j], ParseableOf(input[j].lines))
            /\ IsArchive(input[j]) =>
                   /\ IsSubsequence(parsed_lines[j], MemberEvents(input[j].members))
                   /\ (Done(j) /\ faults[j] = {}) =>
                          /\ log_files[j].status = "completed"
                          /\ parsed_lines[j] = MemberEvents(input[j].members)
                          /\ EventsOf(EntriesOf(log_entries, j)) = parsed_lines[j]

\* a completed job on an archive recognised by its content alone, with a
\* member that is skipped before a log member named in upper case
C26_Witness ==
    \E j \in JobIds :
        /\ Done(j) /\ faults[j] = {}
        /\ ~EndsWithAnyCase(input[j].filename, DotZip)
        /\ Len(input[j].members) = 2
        /\ ~IsLogMember(input[j].members[1])
        /\ IsLogMember(input[j].members[2])
        /\ Len(EntriesOf(log_entries, j)) >= 1

(***************************************************************************)
(* Termination of a job: the worker thread, once started, is scheduled     *)
(* until it ends                                                           *)
(***************************************************************************)

\* a step of the worker thread of job j
WorkerStep(j) ==
    \/ Start(j)
    \/ NextMember(j)
    \/ ReadLine(j)
    \/ PersistBatch(j)
    \/ UpdateProgress(j)
    \/ FinalFlush(j)
    \/ Finalize(j)
    \/ InnerHandler(j)
    \/ OuterHandler(j)

\* the worker thread is not killed: it takes its next step as long as it
\* has one
SpecFair == Spec /\ \A j \in JobIds : WF_vars(WorkerStep(j))

\* C27: every job that is created eventually has status completed or failed,
\* for every input and every pattern of failures of the batch, total-entries
\* and final writes (runs in which the database refuses the handler's write
\* of status failed for a reason of its own are left aside).
C27_JobEndsCompletedOrFailed ==
    \A j \in JobIds :
        Created(j) ~> (\/ Created(j) /\ log_files[j].status \in {"completed", "failed"}
                       \/ ~FailedWritable(j))

(***************************************************************************)
(* The durable progress counter                                            *)
(***************************************************************************)

\* C28: the durable total-entries of a job never decreases, never exceeds
\* the number of the job's durably persisted entries, and is behind it by at
\* most one batch.
C28_TotalFollowsPersisted ==
    /\ [](\A j \in JobIds :
            Created(j) =>
               /\ log_files[j].total_entries <= Len(EntriesOf(log_entries, j))
               /\ Len(EntriesOf(log_entries, j)) - log_files[j].total_entries <= BATCH_SIZE)
    /\ [][\A j \in JobIds :
            Created(j) => log_files'[j].total_entries >= log_files[j].total_entries]_vars

\* the second batch of a job is persisted and not yet counted
C28_Witness ==
    \E j \in JobIds :
        /\ Created(j)
        /\ log_files[j].total_entries = BATCH_SIZE
        /\ Len(EntriesOf(log_entries, j)) > BATCH_SIZE

(***************************************************************************)
(* The history the pipeline hands to the detector                          *)
(***************************************************************************)

\* C29: the history handed to the detector with an event holds only events
\* of that event's client address, so that a burst verdict rests on Blocked
\* events of that address alone: Blocked events of another address of the
\* same department are not counted.
C29_HistoryOfSameClientOnly ==
    \A j \in JobIds : \A k \in 1..Len(worker[j].detector_calls) :
        LET call == worker[j].detector_calls[k]
            own_blocked == {i \in 1..Len(call.recent) :
                               /\ call.recent[i].client_ip = call.entry.client_ip
                               /\ call.recent[i].action = "Blocked"}
        IN  /\ \A i \in 1..Len(call.recent) : call.recent[i].client_ip = call.entry.client_ip
            /\ call.result.anomaly_type = Some("burst_blocked") =>
                   Cardinality(own_blocked) + 1 >= BURST_THRESHOLD

\* a Blocked event evaluated after BURST_THRESHOLD - 1 Blocked events of
\* another address of its department, and not given the burst verdict
C29_Witness ==
    \E j \in JobIds : \E k \in 1..Len(worker[j].detector_calls) :
        LET call == worker[j].detector_calls[k]
            others == {m \in 1..(k - 1) :
                          /\ worker[j].detector_calls[m].entry.client_ip # call.entry.client_ip
                          /\ worker[j].detector_calls[m].entry.department = call.entry.department
                          /\ worker[j].detector_calls[m].entry.action = "Blocked"}
        IN  /\ call.entry.action = "Blocked"
            /\ Cardinality(others) >= BURST_THRESHOLD - 1
            /\ ~call.result.is_anomalous

\* the Blocked events among the at most RECENT_ENTRIES_CAP most recent
\* events of e's client parsed before e, not older than the burst window
EarlierBlockedInWindow(j, e) ==
    LET earlier == HistoryBefore(j, e)
    IN  {i \in 1..Len(earlier) :
            /\ earlier[i].action = "Blocked"
            /\ earlier[i].timestamp >= e.timestamp - BURST_WINDOW_MINUTES * 60}

\* C30: an event that matches no other rule gets the verdict burst_blocked
\* exactly when it is Blocked and at least BURST_THRESHOLD - 1 of the at most
\* RECENT_ENTRIES_CAP most recent earlier events of its client address are
\* Blocked with a timestamp not earlier than the event's time minus 5
\* minutes; Blocked events older than these most recent ones are not counted.
C30_BurstFromLastTwentyOfClient ==
    \A j \in JobIds : \A k \in 1..Len(worker[j].detector_calls) :
        LET call == worker[j].detector_calls[k]
        IN  (\A r \in 1..4 : ~RuleMatches(r, call.entry, call.recent)) =>
               (call.result.anomaly_type = Some("burst_blocked")
                <=> /\ call.entry.action = "Blocked"
                    /\ Cardinality(EarlierBlockedInWindow(j, call.entry)) >= BURST_THRESHOLD - 1)

====
